---- MODULE Spec2Model ----
(***************************************************************************)
(* A model of fdbserver/TagPartitionedLogSystem.actor.cpp: the log-system  *)
(* coordinator of a tag-partitioned, replicated transaction log.           *)
(*                                                                         *)
(* The module is organised by subsystem.  Every subsystem has its own      *)
(* variables, its own initial predicate and its own next-state relation;   *)
(* a specification of one subsystem leaves the variables of the others at  *)
(* their idle values.                                                      *)
(*                                                                         *)
(*   Spec          push, log servers, lockTLog, getDurableVersion          *)
(*   EpochEndSpec  epochEnd: rejoins, locks, failure flags, the main loop  *)
(*   NewEpochSpec  epochEnd followed by newEpoch and newRemoteEpoch        *)
(*   PopSpec       pop, popLogRouter and the popFromLog tasks              *)
(*   PeekSpec      generations, pushes, the cursors of peek and peekLocal  *)
(*   ConfigSpec    getLogSystemConfig, fromLogSystemConfig, coreStateWritten *)
(*   ConfirmSpec   confirmEpochLive and the confirmRunning replies         *)
(*   OnErrorSpec   onError_internal and the futures it watches             *)
(*   DurableSpec   getDurableVersion on one LogLockInfo                    *)
(*   EpochEndLockSpec  the LogLockInfos epochEnd builds from a core state  *)
(*   PeekConfigSpec   peekAll on a LogSystem of fromLogSystemConfig        *)
(*   PeekRemoteSpec   peekRemote over generations with log routers         *)
(*   RouterSpec       recruitOldLogRouters of newEpoch and newRemoteEpoch  *)
(*   PeekSingleSpec   peekSingle and the history of a tag                  *)
(*   SeedSpec         newEpoch: oldLogData and the primary start version   *)
(*   RejoinSpec       trackRejoins and its acknowledgements                *)
(*   LockTLogSpec     lockTLog on a handle whose interface changes         *)
(*   LocSpec          the locations of push and getPushLocations           *)
(*   RouterWalkSpec   recruitOldLogRouters over three localities           *)
(*   DurableAnySpec   getDurableVersion on every set of single zones       *)
(*   LiveSpec         getDurableVersion followed by confirmEpochLive       *)
(*   TrackedSpec      push and onError sharing the actor collection        *)
(*   PopHandleSpec    pop with handles that receive their interface        *)
(*   PopLiveSpec      pop under fair scheduling                            *)
(*   NewEpochOnErrorSpec onError on the LogSystem of newEpoch              *)
(***************************************************************************)
EXTENDS Integers, Sequences, FiniteSets, TLC

VARIABLES
    \* ---- push / lock / durable version ----
    tLogs,              \* the LogSets of the running epoch (std::vector<Reference<LogSet>>)
    tlogVersion,        \* per log server: the last version it made durable
    tlogKnownCommitted, \* per log server: the largest knownCommittedVersion it was told
    tlogStopped,        \* per log server: locked by a recovering master
    commitReply,        \* per pushed version and server: state of the commit request/reply
    pushKnownCommitted, \* per pushed version: the knownCommittedVersion the push carried
    pushResult,         \* per version: state of the future push() returned
    lockReplies,        \* per log server: the Future<TLogLockResult> of lockTLog
    durableResult,      \* the latest result getDurableVersion returned, with its set
    \* ---- epochEnd (a recovering master and the log servers it recovers from) ----
    prevState,          \* the LogSets of the DBCoreState epochEnd was given
    oldTLogs,           \* per old log server: [alive, version, knownCommittedVersion]
    logServers,         \* per old log server: its handle holds an interface (present)
    logFailed,          \* per old log server: the failure flag monitorLog maintains
    lockResults,        \* per old log server: the lock reply future of its LogLockInfo
    changes,            \* what the getDurableVersionChanged futures of the round watch
    lastEnd,            \* Optional<Version>: the end of the last publication
    knownCommittedVersion, \* epochEnd's running maximum of known committed versions
    outLogSystem,       \* the LogSystem published last, if any
    \* ---- newEpoch / newRemoteEpoch (start versions of the new sets) ----
    oldLogSystem,       \* the published LogSystem newEpoch was called on
    configuration,      \* the localities and regions newEpoch was called with
    newEpochPc,         \* where newEpoch and its newRemoteEpoch stand
    logSystem,          \* the tLogs of the LogSystem newEpoch builds
    \* ---- pop / popLogRouter / popFromLog ----
    popHandles,         \* per server or router id: its handle holds an interface
    outstandingPops,    \* per (id, tag): the pair (upTo, knownCommittedVersion)
    popActors,          \* per (id, tag): the popFromLog tasks that exist
    popsSent,           \* per (id, tag): the TLogPopRequests sent, in order
    popCalls,           \* the number of pop calls made
    popEnded,           \* per (id, tag): how its last popFromLog task ended, if in an error
    \* ---- peek / peekAll / peekRemote ----
    peekTLogs,          \* the sets of the current generation
    peekOldLogData,     \* the old generations, newest first
    peekEpochEnd,       \* Optional<Version> epochEndVersion
    peekPushed,         \* per version pushed successfully: the tags of its messages
    peekCursor,         \* the cursor the last peek returned
    peekLocalCursor,    \* what the last peekLocal returned or raised, if any
    peekSingle,         \* the last peekSingle with a history: its spans and its result
    \* ---- getLogSystemConfig / fromLogSystemConfig / coreStateWritten ----
    configSystem,       \* a LogSystem L with its core-state-written flags
    configCopy,         \* fromLogSystemConfig(getLogSystemConfig(L)), if computed
    configCoreState,    \* the DBCoreState toCoreState wrote last, if any
    \* ---- confirmEpochLive ----
    confirmSets,        \* the LogSets confirmEpochLive is called on
    confirmPresent,     \* per server: its handle holds an interface at the call
    confirmAlive,       \* per server: the future alive[i] of its confirmRunning request
    confirmInternal,    \* per set: where its confirmEpochLive_internal stands
    confirmResult,      \* the future confirmEpochLive returned
    \* ---- onError ----
    onErrorPresent,     \* per handle: it holds an interface
    onErrorRemoteRecovery, \* the future remoteRecovery, "none" without remote servers
    onErrorWatch,       \* the failed and changes vectors of the current pass
    onErrorPc,          \* where onError_internal stands
    onErrorLast,        \* the event that woke onError_internal last
    \* ---- getDurableVersion ----
    durableLockInfo,    \* a LogLockInfo: a LogSet and the lock reply futures of its servers
    durableCall,        \* the last call of getDurableVersion on it: its arguments and result
    \* ---- the locks of epochEnd ----
    lockPrevState,      \* the DBCoreState epochEnd is called with: tLogs and oldTLogData
    lockInfos,          \* the lockResults epochEnd built from it, once it has
    \* ---- recruitOldLogRouters ----
    routerSets, \* the LogSets the two LogSystems share: locality, isLocal, startVersion, logRouters
    routerOld, \* oldLogSystem: tLogs, logRouterTags and oldLogData, each set a position in routerSets
    routerNew, \* the LogSystem newEpoch builds, in the same form
    routerArgs, \* primaryLocality, remoteLocality, knownCommittedVersion and the start versions
    routerPc, \* where both recruitOldLogRouters and newRemoteEpoch stand, and their replies
    \* ---- newEpoch: oldLogData and the start version of the primary set ----
    seedOld, \* the old log system newEpoch is called on
    seedDurable, \* lock result number -> what getDurableVersion answers on it now
    seedNew, \* the log system newEpoch builds, << >> before the call
    seedPc, \* where newEpoch stands: "start", "wait" or "done"
    \* ---- trackRejoins and the acknowledgements of the rejoin requests ----
    rejoinHandles, \* position -> the handle trackRejoins watches: id, present, endpoint
    rejoinRequests, \* the rejoin requests sent, in stream order, with their acknowledgement
    rejoinNext, \* the number of requests trackRejoins has taken from the stream
    rejoinLastReply, \* id -> the request whose reply lastReply holds, 0 for none
    rejoinStopped, \* trackRejoins was cancelled
    \* ---- lockTLog on one handle ----
    lockHandle, \* the handle lockTLog was called on: present, interf
    lockAlive, \* interface -> the server at that interface is alive
    lockSent, \* the interfaces a lock request was issued to
    lockAnswers, \* interface -> the end the server there answered with, 0 for no answer
    lockWait, \* the interface whose reply lockTLog waits on, 0 for Never
    lockData, \* the outcome of lockTLog: status, interf, end
    \* ---- push and getPushLocations: the location of a server ----
    locSets, \* tLogs: isLocal and the number of log servers of every set
    locPushed, \* the commit requests push sent: set, loc, location
    locLocations, \* what getPushLocations appended: set, index, location
    locCalled \* which of "push" and "getPushLocations" was called

pushVars == << tLogs, tlogVersion, tlogKnownCommitted, tlogStopped, commitReply,
               pushKnownCommitted, pushResult, lockReplies, durableResult >>

epochEndVars == << prevState, oldTLogs, logServers, logFailed, lockResults, changes,
                   lastEnd, knownCommittedVersion, outLogSystem >>

newEpochVars == << oldLogSystem, configuration, newEpochPc, logSystem >>

popVars == << popHandles, outstandingPops, popActors, popsSent, popCalls, popEnded >>

peekVars == << peekTLogs, peekOldLogData, peekEpochEnd, peekPushed, peekCursor,
              peekLocalCursor, peekSingle >>

configVars == << configSystem, configCopy, configCoreState >>

confirmVars == << confirmSets, confirmPresent, confirmAlive, confirmInternal,
                  confirmResult >>

onErrorVars == << onErrorPresent, onErrorRemoteRecovery, onErrorWatch, onErrorPc,
                 onErrorLast >>

durableVars == << durableLockInfo, durableCall >>

lockVars == << lockPrevState, lockInfos >>

routerVars == << routerSets, routerOld, routerNew, routerArgs, routerPc >>

seedVars == << seedOld, seedDurable, seedNew, seedPc >>

rejoinVars == << rejoinHandles, rejoinRequests, rejoinNext, rejoinLastReply, rejoinStopped >>

lockTLogVars == << lockHandle, lockAlive, lockSent, lockAnswers, lockWait, lockData >>

locVars == << locSets, locPushed, locLocations, locCalled >>

vars == << pushVars, epochEndVars, newEpochVars, popVars, peekVars, configVars,
           confirmVars, onErrorVars, durableVars, lockVars,
    routerVars, seedVars, rejoinVars, lockTLogVars, locVars >>

\* What the actions of one subsystem leave alone.
notPush == << epochEndVars, newEpochVars, popVars, peekVars, configVars, confirmVars,
    onErrorVars, durableVars, lockVars,
    routerVars, seedVars, rejoinVars, lockTLogVars, locVars >>
notEpochEnd == << pushVars, newEpochVars, popVars, peekVars, configVars, confirmVars,
    onErrorVars, durableVars, lockVars,
    routerVars, seedVars, rejoinVars, lockTLogVars, locVars >>
notNewEpoch == << pushVars, epochEndVars, popVars, peekVars, configVars, confirmVars,
    onErrorVars, durableVars, lockVars,
    routerVars, seedVars, rejoinVars, lockTLogVars, locVars >>
notPop == << pushVars, epochEndVars, newEpochVars, peekVars, configVars, confirmVars,
    onErrorVars, durableVars, lockVars,
    routerVars, seedVars, rejoinVars, lockTLogVars, locVars >>
notPeek == << pushVars, epochEndVars, newEpochVars, popVars, configVars, confirmVars,
    onErrorVars, durableVars, lockVars,
    routerVars, seedVars, rejoinVars, lockTLogVars, locVars >>
notConfig == << pushVars, epochEndVars, newEpochVars, popVars, peekVars, confirmVars,
    onErrorVars, durableVars, lockVars,
    routerVars, seedVars, rejoinVars, lockTLogVars, locVars >>
notOnError == << pushVars, epochEndVars, newEpochVars, popVars, peekVars, configVars,
    confirmVars, durableVars, lockVars,
    routerVars, seedVars, rejoinVars, lockTLogVars, locVars >>
notDurable == << pushVars, epochEndVars, newEpochVars, popVars, peekVars, configVars,
    confirmVars, onErrorVars, lockVars,
    routerVars, seedVars, rejoinVars, lockTLogVars, locVars >>
notLock == << pushVars, epochEndVars, newEpochVars, popVars, peekVars, configVars,
    confirmVars, onErrorVars, durableVars,
    routerVars, seedVars, rejoinVars, lockTLogVars, locVars >>
notConfirm == << pushVars, epochEndVars, newEpochVars, popVars, peekVars, configVars,
    onErrorVars, durableVars, lockVars,
    routerVars, seedVars, rejoinVars, lockTLogVars, locVars >>
notLoc == << pushVars, epochEndVars, newEpochVars, popVars, peekVars, configVars,
    confirmVars, onErrorVars, durableVars, lockVars, routerVars, seedVars, rejoinVars, lockTLogVars >>
notLockTLog == << pushVars, epochEndVars, newEpochVars, popVars, peekVars, configVars,
    confirmVars, onErrorVars, durableVars, lockVars, routerVars, seedVars, rejoinVars,
    locVars >>
notRejoin == << pushVars, epochEndVars, newEpochVars, popVars, peekVars, configVars,
    confirmVars, onErrorVars, durableVars, lockVars, routerVars, seedVars,
    lockTLogVars, locVars >>
notSeed == << pushVars, epochEndVars, newEpochVars, popVars, peekVars, configVars,
    confirmVars, onErrorVars, durableVars, lockVars, routerVars,
    rejoinVars, lockTLogVars, locVars >>
notRouter == << pushVars, epochEndVars, newEpochVars, popVars, peekVars, configVars,
    confirmVars, onErrorVars, durableVars, lockVars,
    seedVars, rejoinVars, lockTLogVars, locVars >>

----------------------------------------------------------------------------
(* Generic helpers                                                         *)

Min(a, b) == IF a < b THEN a ELSE b
Max(a, b) == IF a > b THEN a ELSE b

SeqRange(s) == { s[i] : i \in DOMAIN s }

RECURSIVE SetMax(_)
SetMax(S) == IF S = {} THEN 0
             ELSE LET x == CHOOSE y \in S : TRUE IN Max(x, SetMax(S \ {x}))

\* The subsequence of s at the indices in I, in index order.
RECURSIVE SelectIdx(_, _, _)
SelectIdx(s, I, i) ==
    IF i > Len(s) THEN << >>
    ELSE (IF i \in I THEN << s[i] >> ELSE << >>) \o SelectIdx(s, I, i + 1)

NoVersion == [present |-> FALSE]
SomeVersion(v) == [present |-> TRUE, value |-> v]

----------------------------------------------------------------------------
(* Bounds of the model                                                     *)

\* Versions pushed in the running epoch are 1..MaxVersion.
MaxVersion == 1

\* The distance getDurableVersion keeps between a set's end and the known
\* committed version it derives (MAX_READ_TRANSACTION_LIFE_VERSIONS, scaled
\* to the versions of the model).
MaxReadTransactionLifeVersions == 2

Versions == 1 .. MaxVersion

----------------------------------------------------------------------------
(* Replication policy.  A policy "across k zones" is satisfied by a group  *)
(* of localities that spans at least k distinct zones.                     *)

\* LocalityGroup::validate(policy) on a sequence of localities.
Validate(policy, localities) == Cardinality(SeqRange(localities)) >= policy

\* All index sets of size n of a sequence.
Combinations(s, n) == { C \in SUBSET (DOMAIN s) : Cardinality(C) = n }

\* validateAllCombinations(badCombo, localitySet, policy, newItems, n, FALSE):
\* TRUE iff no n of newItems added to localitySet make a group that the
\* policy accepts.
ValidateAllCombinations(localitySet, policy, newItems, n) ==
    IF Len(newItems) < n THEN FALSE
    ELSE IF Len(newItems) = 0 \/ n = 0 THEN Validate(policy, localitySet)
    ELSE \A C \in Combinations(newItems, n) :
            ~ Validate(policy, localitySet \o SelectIdx(newItems, C, 1))

----------------------------------------------------------------------------
(* LogSets                                                                 *)

LogSet(servers, zones, R, A, local, loc) ==
    [ logServers            |-> servers,
      tLogLocalities        |-> zones,
      tLogReplicationFactor |-> R,
      tLogWriteAntiQuorum   |-> A,
      tLogPolicy            |-> R,
      isLocal               |-> local,
      locality              |-> loc ]

\* The systems the push specification starts from: a primary set with an
\* anti-quorum next to a remote set; a primary and a satellite set; a
\* primary set of replication factor one next to a set that has no servers;
\* a single set of three servers with an anti-quorum.
PushSystems ==
    { << LogSet(<<1, 2>>, <<"z1", "z2">>, 2, 1, TRUE, "primary"),
         LogSet(<<3>>, <<"z3">>, 1, 0, FALSE, "remote") >>,
      << LogSet(<<1, 2>>, <<"z1", "z2">>, 2, 0, TRUE, "primary"),
         LogSet(<<3>>, <<"z3">>, 1, 0, TRUE, "satellite") >>,
      << LogSet(<<1, 2>>, <<"z1", "z2">>, 1, 0, TRUE, "primary"),
         LogSet(<< >>, << >>, 1, 0, TRUE, "satellite") >>,
      << LogSet(<<1, 2, 3>>, <<"z1", "z2", "z3">>, 2, 1, TRUE, "primary") >> }

Servers == { 1, 2, 3 }

ServersOf(logSet) == SeqRange(logSet.logServers)

----------------------------------------------------------------------------
(* Futures.  quorum(fs, n) is ready once n of fs succeeded and fails once  *)
(* so many failed that n successes became impossible; waitForAll(fs) is    *)
(* ready once all succeeded and fails as soon as one failed.               *)

Quorum(states, n) ==
    LET ok  == Cardinality({ i \in DOMAIN states : states[i] = "ack" })
        bad == Cardinality({ i \in DOMAIN states :
                                states[i] \in {"tlog_stopped", "master_tlog_failed"} })
    IN  IF ok >= n THEN "ready"
        ELSE IF bad >= Len(states) - n + 1 THEN "error"
        ELSE "pending"

WaitForAll(states) ==
    IF \E i \in DOMAIN states : states[i] = "error" THEN "error"
    ELSE IF \A i \in DOMAIN states : states[i] = "ready" THEN "success"
    ELSE "running"

----------------------------------------------------------------------------
(* push                                                                    *)

\* A push that skipped the isLocal test.
PushSetsAllSets(sys) == { i \in DOMAIN sys : Len(sys[i].logServers) > 0 }

\* The sets push sends to: local sets that have servers.
PushSets(sys) == { i \in DOMAIN sys : sys[i].isLocal /\ Len(sys[i].logServers) > 0 }

\* A write quorum that is one server short.
PushQuorumShort(logSet) == Len(logSet.logServers) - logSet.tLogWriteAntiQuorum - 1

\* tLogCommitResults.size() - it->tLogWriteAntiQuorum
PushQuorum(logSet) == Len(logSet.logServers) - logSet.tLogWriteAntiQuorum

\* The future push returned for version v, given the replies seen so far.
PushFuture(sys, replies) ==
    LET sets == SelectIdx(sys, PushSets(sys), 1)
        q    == [ k \in DOMAIN sets |->
                    Quorum([ j \in DOMAIN sets[k].logServers |->
                               replies[sets[k].logServers[j]] ],
                           PushQuorum(sets[k])) ]
    IN  WaitForAll(q)

\* The largest version whose push has completed successfully.
LastCommitted == SetMax({ v \in Versions : pushResult[v] = "success" })

\* push(prevVersion = v - 1, version = v, knownCommittedVersion, ...): one
\* commit request to every server of every local set that has servers.
Push(v) ==
    /\ pushResult[v] = "idle"
    /\ v > 1 => pushResult[v - 1] # "idle"
    /\ LET targets == UNION { ServersOf(tLogs[i]) : i \in PushSets(tLogs) }
           sent    == [ s \in Servers |-> IF s \in targets THEN "sent" ELSE "none" ]
       IN  /\ commitReply' = [commitReply EXCEPT ![v] = sent]
           /\ pushResult' = [pushResult EXCEPT ![v] = PushFuture(tLogs, sent)]
    /\ pushKnownCommitted' = [pushKnownCommitted EXCEPT ![v] = LastCommitted]
    /\ UNCHANGED << tLogs, tlogVersion, tlogKnownCommitted, tlogStopped,
                    lockReplies, durableResult >>
    /\ UNCHANGED notPush

\* A log server handles a commit request: a stopped server refuses it
\* (tlog_stopped reaches the master at once), a running server makes the
\* version durable once it has the previous one, and its reply is in flight.
TLogCommit(v, s) ==
    /\ commitReply[v][s] = "sent"
    /\ IF tlogStopped[s]
       THEN /\ commitReply' = [commitReply EXCEPT ![v][s] = "tlog_stopped"]
            /\ pushResult' = [pushResult EXCEPT ![v] =
                   IF @ = "running" THEN PushFuture(tLogs, commitReply'[v]) ELSE @]
            /\ UNCHANGED << tlogVersion, tlogKnownCommitted >>
       ELSE /\ tlogVersion[s] = v - 1
            /\ tlogVersion' = [tlogVersion EXCEPT ![s] = v]
            /\ tlogKnownCommitted' = [tlogKnownCommitted EXCEPT ![s] =
                   Max(@, pushKnownCommitted[v])]
            /\ commitReply' = [commitReply EXCEPT ![v][s] = "durable"]
            /\ UNCHANGED pushResult
    /\ UNCHANGED << tLogs, tlogStopped, pushKnownCommitted, lockReplies, durableResult >>
    /\ UNCHANGED notPush

\* The reply of a commit reaches reportTLogCommitErrors and the quorum of
\* its set; the push completes when its last quorum does.
CommitReplyArrives(v, s) ==
    /\ commitReply[v][s] = "durable"
    /\ commitReply' = [commitReply EXCEPT ![v][s] = "ack"]
    /\ pushResult' = [pushResult EXCEPT ![v] =
           IF @ = "running" THEN PushFuture(tLogs, commitReply'[v]) ELSE @]
    /\ UNCHANGED << tLogs, tlogVersion, tlogKnownCommitted, tlogStopped,
                    pushKnownCommitted, lockReplies, durableResult >>
    /\ UNCHANGED notPush

\* The connection to a server breaks before it handled the commit:
\* broken_promise, which reportTLogCommitErrors turns into master_tlog_failed.
CommitReplyBroken(v, s) ==
    /\ commitReply[v][s] = "sent"
    /\ commitReply' = [commitReply EXCEPT ![v][s] = "master_tlog_failed"]
    /\ pushResult' = [pushResult EXCEPT ![v] =
           IF @ = "running" THEN PushFuture(tLogs, commitReply'[v]) ELSE @]
    /\ UNCHANGED << tLogs, tlogVersion, tlogKnownCommitted, tlogStopped,
                    pushKnownCommitted, lockReplies, durableResult >>
    /\ UNCHANGED notPush

----------------------------------------------------------------------------
(* lockTLog and getDurableVersion                                          *)

\* A lock request that is answered by a server that goes on accepting
\* commits.
LockTLogKeepsAccepting(s) ==
    /\ ~ lockReplies[s].ready
    /\ lockReplies' = [lockReplies EXCEPT ![s] =
           [ready |-> TRUE, end |-> tlogVersion[s] + 1,
            knownCommittedVersion |-> tlogKnownCommitted[s]]]
    /\ UNCHANGED << tLogs, tlogVersion, tlogKnownCommitted, tlogStopped, commitReply,
                    pushKnownCommitted, pushResult, durableResult >>
    /\ UNCHANGED notPush

\* The lock request reaches server s: the server stops accepting commits and
\* answers with one past its last version and its known committed version.
LockTLog(s) ==
    /\ ~ lockReplies[s].ready
    /\ tlogStopped' = [tlogStopped EXCEPT ![s] = TRUE]
    /\ lockReplies' = [lockReplies EXCEPT ![s] =
           [ready |-> TRUE, end |-> tlogVersion[s] + 1,
            knownCommittedVersion |-> tlogKnownCommitted[s]]]
    /\ UNCHANGED << tLogs, tlogVersion, tlogKnownCommitted, commitReply,
                    pushKnownCommitted, pushResult, durableResult >>
    /\ UNCHANGED notPush

\* A Future<TLogLockResult> that is not ready.
NoReply == [ready |-> FALSE, end |-> 0, knownCommittedVersion |-> 0]

\* Insert a lock result into a sequence sorted by end (std::sort, sort_by_end).
RECURSIVE InsertByEnd(_, _)
InsertByEnd(sorted, r) ==
    IF sorted = << >> THEN << r >>
    ELSE IF r.end < Head(sorted).end THEN << r >> \o sorted
    ELSE << Head(sorted) >> \o InsertByEnd(Tail(sorted), r)

\* The results as they were collected, in server order.
SortByEndInServerOrder(results) == results

RECURSIVE SortByEnd(_)
SortByEnd(results) ==
    IF results = << >> THEN << >>
    ELSE InsertByEnd(SortByEnd(Tail(results)), Head(results))

\* The servers of a set, by position, whose lock reply is ready without
\* error and that are not flagged failed.
Responded(logSet, replies, failed) ==
    { t \in DOMAIN logSet.logServers :
        /\ replies[t].ready
        /\ t \notin failed }

\* An anti-quorum that is ignored when the end is picked.
NewSafeRangeBeginZero(logSet, n) == 0

\* new_safe_range_begin, as a 0-based index into the sorted results.
NewSafeRangeBegin(logSet, n) == Min(logSet.tLogWriteAntiQuorum, n - 1)

\* Failures are too many as soon as fewer servers than the replication
\* factor have responded.
TooManyFailuresBelowReplication(logSet, present, unResponsiveSet, availableItems) ==
    present < logSet.tLogReplicationFactor

\* Failures are too many only by the count of results or by the
\* unresponsive servers alone.
TooManyFailuresNoCombinations(logSet, present, unResponsiveSet, availableItems) ==
    \/ present <= logSet.tLogWriteAntiQuorum
    \/ /\ Len(unResponsiveSet) >= logSet.tLogReplicationFactor
       /\ Validate(logSet.tLogPolicy, unResponsiveSet)

\* Failures are too many only when the results are not more than the
\* anti-quorum.
TooManyFailuresAntiQuorumOnly(logSet, present, unResponsiveSet, availableItems) ==
    present <= logSet.tLogWriteAntiQuorum

\* bTooManyFailures: the results are not more than the anti-quorum, or the
\* unresponsive servers complete the policy, or some combination of
\* anti-quorum many available servers does with the unresponsive ones.
TooManyFailures(logSet, present, unResponsiveSet, availableItems) ==
    \/ present <= logSet.tLogWriteAntiQuorum
    \/ /\ Len(unResponsiveSet) >= logSet.tLogReplicationFactor
       /\ Validate(logSet.tLogPolicy, unResponsiveSet)
    \/ /\ logSet.tLogWriteAntiQuorum > 0
       /\ ~ ValidateAllCombinations(unResponsiveSet, logSet.tLogPolicy,
                                    availableItems, logSet.tLogWriteAntiQuorum)

\* getDurableVersion(dbgid, lockInfo, failed, lastEnd).  replies and failed
\* are by position in the set; the result is absent or (first, second) =
\* (knownCommittedVersion, end).
GetDurableVersion(logSet, replies, failed, lastEndArg) ==
    LET N == Len(logSet.logServers)
        R == logSet.tLogReplicationFactor
        A == logSet.tLogWriteAntiQuorum
        resp == Responded(logSet, replies, failed)
        results == SelectIdx(replies, resp, 1)
        availableItems == SelectIdx(logSet.tLogLocalities, resp, 1)
        unResponsiveSet == SelectIdx(logSet.tLogLocalities, (1 .. N) \ resp, 1)
        bTooManyFailures == TooManyFailures(logSet, Len(results), unResponsiveSet,
                                            availableItems)
        sorted == SortByEnd(results)
        absent == N - Len(results)
        new_safe_range_begin == NewSafeRangeBegin(logSet, Len(results))
        safe_range_end == R - absent
        knownCommitted ==
            Max(sorted[new_safe_range_begin + 1].end - MaxReadTransactionLifeVersions,
                SetMax({ results[i].knownCommittedVersion : i \in DOMAIN results }))
    IN  IF bTooManyFailures THEN [present |-> FALSE]
        ELSE IF \/ ~ lastEndArg.present
                \/ /\ safe_range_end > 0
                   /\ safe_range_end - 1 < Len(results)
                   /\ sorted[safe_range_end].end < lastEndArg.value
             THEN [present |-> TRUE,
                   first   |-> knownCommitted,
                   second  |-> sorted[new_safe_range_begin + 1].end]
             ELSE [present |-> FALSE]

\* The lock replies of set i, by position.
LockInfoReplies(i) == [ t \in DOMAIN tLogs[i].logServers |->
                          lockReplies[tLogs[i].logServers[t]] ]

\* A recovering master evaluates getDurableVersion on set i, with the
\* failure flags its monitors show at that moment.
DurableVersion(i, failed) ==
    /\ Len(tLogs[i].logServers) > 0
    /\ LET v == GetDurableVersion(tLogs[i], LockInfoReplies(i), failed, NoVersion)
       IN  /\ v.present
           /\ durableResult' = [present |-> TRUE, set |-> i,
                                 first |-> v.first, second |-> v.second]
    /\ UNCHANGED << tLogs, tlogVersion, tlogKnownCommitted, tlogStopped, commitReply,
                    pushKnownCommitted, pushResult, lockReplies >>
    /\ UNCHANGED notPush

----------------------------------------------------------------------------
(* Idle values of the other subsystems' variables                          *)

EpochEndIdle ==
    /\ prevState = << >>
    /\ oldTLogs = << >>
    /\ logServers = << >>
    /\ logFailed = << >>
    /\ lockResults = << >>
    /\ changes = {}
    /\ lastEnd = NoVersion
    /\ knownCommittedVersion = 0
    /\ outLogSystem = [present |-> FALSE]

PopIdle ==
    /\ popHandles = << >>
    /\ outstandingPops = << >>
    /\ popActors = << >>
    /\ popsSent = << >>
    /\ popCalls = 0
    /\ popEnded = << >>

NewEpochIdle ==
    /\ oldLogSystem = [present |-> FALSE]
    /\ configuration = << >>
    /\ newEpochPc = "idle"
    /\ logSystem = << >>

PeekIdle ==
    /\ peekTLogs = << >>
    /\ peekOldLogData = << >>
    /\ peekEpochEnd = NoVersion
    /\ peekPushed = << >>
    /\ peekCursor = << >>
    /\ peekLocalCursor = << >>
    /\ peekSingle = << >>

ConfigIdle ==
    /\ configSystem = << >>
    /\ configCopy = [present |-> FALSE]
    /\ configCoreState = [present |-> FALSE]

ConfirmIdle ==
    /\ confirmSets = << >>
    /\ confirmPresent = << >>
    /\ confirmAlive = << >>
    /\ confirmInternal = << >>
    /\ confirmResult = "idle"

OnErrorIdle ==
    /\ onErrorPresent = << >>
    /\ onErrorRemoteRecovery = "none"
    /\ onErrorWatch = << >>
    /\ onErrorPc = "idle"
    /\ onErrorLast = "none"

DurableIdle ==
    /\ durableLockInfo = << >>
    /\ durableCall = << >>

LockIdle ==
    /\ lockPrevState = << >>
    /\ lockInfos = << >>

RouterIdle ==
    /\ routerSets = << >>
    /\ routerOld = << >>
    /\ routerNew = << >>
    /\ routerArgs = << >>
    /\ routerPc = << >>

SeedIdle ==
    /\ seedOld = << >>
    /\ seedDurable = << >>
    /\ seedNew = << >>
    /\ seedPc = "idle"

RejoinIdle ==
    /\ rejoinHandles = << >>
    /\ rejoinRequests = << >>
    /\ rejoinNext = 0
    /\ rejoinLastReply = << >>
    /\ rejoinStopped = FALSE

LockTLogIdle ==
    /\ lockHandle = << >>
    /\ lockAlive = << >>
    /\ lockSent = {}
    /\ lockAnswers = << >>
    /\ lockWait = 0
    /\ lockData = << >>

LocIdle ==
    /\ locSets = << >>
    /\ locPushed = << >>
    /\ locLocations = << >>
    /\ locCalled = {}

PushIdle ==
    /\ tLogs = << >>
    /\ tlogVersion = [ s \in Servers |-> 0 ]
    /\ tlogKnownCommitted = [ s \in Servers |-> 0 ]
    /\ tlogStopped = [ s \in Servers |-> FALSE ]
    /\ commitReply = [ v \in Versions |-> [ s \in Servers |-> "none" ] ]
    /\ pushKnownCommitted = [ v \in Versions |-> 0 ]
    /\ pushResult = [ v \in Versions |-> "idle" ]
    /\ lockReplies = [ s \in Servers |-> NoReply ]
    /\ durableResult = [present |-> FALSE, set |-> 0, first |-> 0, second |-> 0]

\* Every subsystem but the active ones is idle.
Idle(active) ==
    /\ IF "push" \in active THEN TRUE ELSE PushIdle
    /\ IF "epochEnd" \in active THEN TRUE ELSE EpochEndIdle
    /\ IF "newEpoch" \in active THEN TRUE ELSE NewEpochIdle
    /\ IF "pop" \in active THEN TRUE ELSE PopIdle
    /\ IF "peek" \in active THEN TRUE ELSE PeekIdle
    /\ IF "config" \in active THEN TRUE ELSE ConfigIdle
    /\ IF "confirm" \in active THEN TRUE ELSE ConfirmIdle
    /\ IF "onError" \in active THEN TRUE ELSE OnErrorIdle
    /\ IF "durable" \in active THEN TRUE ELSE DurableIdle
    /\ IF "lock" \in active THEN TRUE ELSE LockIdle
    /\ IF "router" \in active THEN TRUE ELSE RouterIdle
    /\ IF "seed" \in active THEN TRUE ELSE SeedIdle
    /\ IF "rejoin" \in active THEN TRUE ELSE RejoinIdle
    /\ IF "lockTLog" \in active THEN TRUE ELSE LockTLogIdle
    /\ IF "loc" \in active THEN TRUE ELSE LocIdle

----------------------------------------------------------------------------
(* Specification of push, lock and durable version                         *)

Init ==
    /\ tLogs \in PushSystems
    /\ tlogVersion = [ s \in Servers |-> 0 ]
    /\ tlogKnownCommitted = [ s \in Servers |-> 0 ]
    /\ tlogStopped = [ s \in Servers |-> FALSE ]
    /\ commitReply = [ v \in Versions |-> [ s \in Servers |-> "none" ] ]
    /\ pushKnownCommitted = [ v \in Versions |-> 0 ]
    /\ pushResult = [ v \in Versions |-> "idle" ]
    /\ lockReplies = [ s \in Servers |-> NoReply ]
    /\ durableResult = [present |-> FALSE, set |-> 0, first |-> 0, second |-> 0]
    /\ Idle({ "push" })

Next ==
    \/ \E v \in Versions : Push(v)
    \/ \E v \in Versions, s \in Servers : TLogCommit(v, s)
    \/ \E v \in Versions, s \in Servers : CommitReplyArrives(v, s)
    \/ \E v \in Versions, s \in Servers : CommitReplyBroken(v, s)
    \/ \E s \in Servers : LockTLog(s)
    \/ \E i \in DOMAIN tLogs :
          \E failed \in SUBSET (DOMAIN tLogs[i].logServers) : DurableVersion(i, failed)

Spec == Init /\ [][Next]_vars

----------------------------------------------------------------------------
(* Properties of push, lock and durable version                            *)

\* The servers of set i that acknowledged the commit of version v.
Acked(i, v) == { s \in ServersOf(tLogs[i]) : commitReply[v][s] = "ack" }

\* The servers of set i that hold version v.
Holding(i, v) == { s \in ServersOf(tLogs[i]) : tlogVersion[s] >= v }

SetSize(i) == Len(tLogs[i].logServers)

\* C1: a push has completed successfully only if every local set with
\* servers has acknowledgements of at least N - A of its N servers; no
\* commit is ever sent to a server of a non-local set.
PushAtomicity ==
    \A v \in Versions : \A i \in DOMAIN tLogs :
        IF tLogs[i].isLocal /\ SetSize(i) > 0
        THEN pushResult[v] = "success" =>
                Cardinality(Acked(i, v)) >= SetSize(i) - tLogs[i].tLogWriteAntiQuorum
        ELSE \A s \in ServersOf(tLogs[i]) : commitReply[v][s] = "none"

\* C1 witness: a push succeeded with exactly N - A < N acknowledgements of
\* a local set, in a system that also has a non-local set with servers.
PushAtomicityWitness ==
    \E v \in Versions : \E i, j \in DOMAIN tLogs :
        /\ pushResult[v] = "success"
        /\ tLogs[i].isLocal /\ tLogs[i].tLogWriteAntiQuorum > 0
        /\ Cardinality(Acked(i, v)) = SetSize(i) - tLogs[i].tLogWriteAntiQuorum
        /\ ~ tLogs[j].isLocal /\ SetSize(j) > 0

\* C2: for the result (first, second) getDurableVersion returned for a set,
\* every version below second whose push succeeded is held by at least
\* N - A servers of the set.
CommittedBelowEndIsReplicated ==
    durableResult.present =>
        LET i == durableResult.set IN
        \A v \in Versions :
            (pushResult[v] = "success" /\ v < durableResult.second) =>
                Cardinality(Holding(i, v)) >= SetSize(i) - tLogs[i].tLogWriteAntiQuorum

\* C2 witness: a result was returned for a local set and a committed
\* version lies below its end.
CommittedBelowEndWitness ==
    /\ durableResult.present
    /\ tLogs[durableResult.set].isLocal
    /\ \E v \in Versions : pushResult[v] = "success" /\ v < durableResult.second

\* C3: once getDurableVersion has returned (first, second) for a set, fewer
\* than N - A servers of the set are unlocked, and no version at or above
\* second is held by N - A servers of the set or pushed successfully.
NothingAcceptedFromEnd ==
    durableResult.present =>
        LET i == durableResult.set
            k == SetSize(i) - tLogs[i].tLogWriteAntiQuorum
        IN  /\ Cardinality({ s \in ServersOf(tLogs[i]) : ~ tlogStopped[s] }) < k
            /\ \A v \in Versions : v >= durableResult.second =>
                   /\ Cardinality(Holding(i, v)) < k
                   /\ i \in PushSets(tLogs) => pushResult[v] # "success"

\* C3 witness: after a result was returned, a push of a version at or above
\* its end is still collecting acknowledgements in that set and one of the
\* set's servers holds the version.
NothingAcceptedFromEndWitness ==
    /\ durableResult.present
    /\ \E v \in Versions :
          /\ v >= durableResult.second
          /\ pushResult[v] \in {"running", "error"}
          /\ Holding(durableResult.set, v) # {}

\* The positions of set i whose lock reply a call of getDurableVersion with
\* these failure flags counts.
DurableCounted(i, failed) == Responded(tLogs[i], LockInfoReplies(i), failed)

\* The ends the counted servers of set i report that lie below end.
DurableEndsBelow(i, failed, end) ==
    { t \in DurableCounted(i, failed) : LockInfoReplies(i)[t].end < end }

\* C34: whenever getDurableVersion, called on a set with any failure flags,
\* returns (first, second), more than A servers responded, at most A of
\* them report a lock end below second, every version that at least N - A
\* servers of the set hold lies below second, and one of the responded
\* servers reports an end of at least second: it holds every version below.
NoCommittedVersionLost ==
    \A i \in DOMAIN tLogs : \A failed \in SUBSET (DOMAIN tLogs[i].logServers) :
        Len(tLogs[i].logServers) > 0 =>
        LET v == GetDurableVersion(tLogs[i], LockInfoReplies(i), failed, NoVersion)
            A == tLogs[i].tLogWriteAntiQuorum
            counted == DurableCounted(i, failed)
        IN  v.present =>
              /\ Cardinality(counted) > A
              /\ Cardinality(DurableEndsBelow(i, failed, v.second)) <= A
              /\ \A ver \in Versions :
                    Cardinality(Holding(i, ver)) >= SetSize(i) - A => ver < v.second
              /\ \E t \in counted :
                    /\ LockInfoReplies(i)[t].end >= v.second
                    /\ \A ver \in Versions : ver < v.second =>
                          tLogs[i].logServers[t] \in Holding(i, ver)

\* C34 witness: getDurableVersion has returned a result for a set with an
\* anti-quorum, of which a server reports a lock end below the returned end,
\* and a version below the returned end was pushed successfully with N - A
\* acknowledgements.
NoCommittedVersionLostWitness ==
    /\ durableResult.present
    /\ LET i == durableResult.set
       IN  /\ tLogs[i].tLogWriteAntiQuorum > 0
           /\ DurableEndsBelow(i, {}, durableResult.second) # {}
           /\ GetDurableVersion(tLogs[i], LockInfoReplies(i), {}, NoVersion).present
           /\ \E ver \in Versions :
                 /\ pushResult[ver] = "success"
                 /\ ver < durableResult.second
                 /\ Cardinality(Holding(i, ver)) = SetSize(i) - tLogs[i].tLogWriteAntiQuorum

----------------------------------------------------------------------------
(* epochEnd.  A recovering master is given the previous DBCoreState.  It   *)
(* starts with handles that hold ids only, learns interfaces from rejoin   *)
(* requests, locks every server of the previous epoch and, whenever         *)
(* something relevant changes, evaluates getDurableVersion on the local    *)
(* sets and possibly publishes a stopped LogSystem.                         *)

\* The old log servers start with a last version in 0..MaxOldVersion.
MaxOldVersion == 1

\* The previous epochs epochEnd is started on: one local set that tolerates
\* a failure; a local set with an anti-quorum next to a remote set; a primary
\* and a satellite set.
PrevStates ==
    { << LogSet(<<1, 2, 3>>, <<"z1", "z2", "z3">>, 2, 0, TRUE, "primary") >>,
      << LogSet(<<1, 2>>, <<"z1", "z2">>, 2, 1, TRUE, "primary"),
         LogSet(<<3>>, <<"z3">>, 1, 0, FALSE, "remote") >>,
      << LogSet(<<1, 2>>, <<"z1", "z2">>, 2, 0, TRUE, "primary"),
         LogSet(<<3>>, <<"z3">>, 1, 0, TRUE, "satellite") >> }

NoLogSystem == [present |-> FALSE, epochEndVersion |-> 0, knownCommittedVersion |-> 0,
                stopped |-> FALSE, remoteLogsWrittenToCoreState |-> FALSE]

\* lockResults[log].replies and logFailed[log], by position in the set.
LockResultReplies(sets, replies, log) ==
    [ t \in DOMAIN sets[log].logServers |-> replies[sets[log].logServers[t]] ]

FailedPositions(sets, failed, log) ==
    { t \in DOMAIN sets[log].logServers : failed[sets[log].logServers[t]] }

\* A getDurableVersionChanged that forgets the failure flags.
GetDurableVersionChangedNoFailed(logSet, replies) ==
    UNION { IF ~ replies[s].ready THEN { << "reply", s >> }
            ELSE { << "handle", s >> } : s \in ServersOf(logSet) }

\* getDurableVersionChanged(lockInfo, failed): what the future waits on.
GetDurableVersionChanged(logSet, replies) ==
    UNION { IF ~ replies[s].ready THEN { << "reply", s >> }
            ELSE { << "handle", s >>, << "failed", s >> } : s \in ServersOf(logSet) }

RECURSIVE SetMin(_)
SetMin(S) == LET x == CHOOSE y \in S : TRUE
             IN  IF S = { x } THEN x ELSE Min(x, SetMin(S \ { x }))

\* A loop that publishes once only.
EpochEndPublishOnce(maxEnd, le) == maxEnd > 0 /\ ~ le.present

\* if (maxEnd > 0 && (!lastEnd.present() || maxEnd < lastEnd.get()))
EpochEndPublish(maxEnd, le) == maxEnd > 0 /\ (~ le.present \/ maxEnd < le.value)

\* An iteration that takes knownCommittedVersion from its own round only.
EpochEndRoundForgetsKnownCommitted(sets, replies, failed, le, kcv, out) ==
    LET local == { log \in DOMAIN sets : sets[log].isLocal }
        versions(log) == GetDurableVersion(sets[log], LockResultReplies(sets, replies, log),
                                           FailedPositions(sets, failed, log), le)
        present == { log \in local : versions(log).present }
        newKcv == SetMax({ versions(log).first : log \in present })
        maxEnd == SetMax({ versions(log).second : log \in present })
        minEnd == SetMin({ versions(log).second : log \in present })
        publish == EpochEndPublish(maxEnd, le)
    IN  [ lastEnd |-> IF publish THEN SomeVersion(minEnd) ELSE le,
          knownCommittedVersion |-> newKcv,
          outLogSystem |-> IF publish
                           THEN [present |-> TRUE, epochEndVersion |-> minEnd,
                                 knownCommittedVersion |-> newKcv, stopped |-> TRUE,
                                 remoteLogsWrittenToCoreState |-> TRUE]
                           ELSE out,
          changes |-> UNION { GetDurableVersionChanged(sets[log], replies) : log \in local } ]

\* One iteration of the main loop of epochEnd, on the given replies and
\* failure flags: the new lastEnd, knownCommittedVersion, published system
\* and the futures the loop then waits on.
EpochEndRound(sets, replies, failed, le, kcv, out) ==
    LET local == { log \in DOMAIN sets : sets[log].isLocal }
        versions(log) == GetDurableVersion(sets[log], LockResultReplies(sets, replies, log),
                                           FailedPositions(sets, failed, log), le)
        present == { log \in local : versions(log).present }
        newKcv == Max(kcv, SetMax({ versions(log).first : log \in present }))
        maxEnd == SetMax({ versions(log).second : log \in present })
        minEnd == SetMin({ versions(log).second : log \in present })
        publish == EpochEndPublish(maxEnd, le)
    IN  [ lastEnd |-> IF publish THEN SomeVersion(minEnd) ELSE le,
          knownCommittedVersion |-> newKcv,
          outLogSystem |-> IF publish
                           THEN [present |-> TRUE, epochEndVersion |-> minEnd,
                                 knownCommittedVersion |-> newKcv, stopped |-> TRUE,
                                 remoteLogsWrittenToCoreState |-> TRUE]
                           ELSE out,
          changes |-> UNION { GetDurableVersionChanged(sets[log], replies) : log \in local } ]

\* The main loop continues when one of the futures it waits on fires.
EpochEndWakes(event, replies, failed) ==
    LET r == EpochEndRound(prevState, replies, failed, lastEnd,
                           knownCommittedVersion, outLogSystem)
    IN  IF event \in changes
        THEN /\ lastEnd' = r.lastEnd
             /\ knownCommittedVersion' = r.knownCommittedVersion
             /\ outLogSystem' = r.outLogSystem
             /\ changes' = r.changes
        ELSE UNCHANGED << lastEnd, knownCommittedVersion, outLogSystem, changes >>

\* std::numeric_limits<Version>::max(), the epochEnd of a LogLockInfo that
\* was not given one.
VersionLimit == 1000000

\* oldLogSystem->lockResults: epochEnd locks the current sets of the
\* previous state, one LogLockInfo per set.
LockInfo(log) == [logSet |-> prevState[log], isCurrent |-> TRUE, epochEnd |-> VersionLimit]

\* The first lock result whose set has the locality; 0 when there is none.
FirstLockNum(locality) ==
    LET M == { log \in DOMAIN prevState : LockInfo(log).logSet.locality = locality }
    IN  IF M = {} THEN 0 ELSE SetMin(M)

\* A refinement that forgets the start version it refines.
RefinedStartVersionUncapped(versions, epochEnd, startVersion) ==
    Min(versions.first + 1, epochEnd)

\* std::min(std::min(versions.first + 1, epochEnd), startVersion)
RefinedStartVersion(versions, epochEnd, startVersion) ==
    Min(Min(versions.first + 1, epochEnd), startVersion)

NoVersions == [present |-> FALSE, first |-> 0, second |-> 0]

\* The while loop that settles the start version of the new set of a
\* locality, on the given lock replies.  newEpoch leaves the loop at once on
\* a lock result that is current and local; newRemoteEpoch does not.  The
\* loop is not through (ready = FALSE) while getDurableVersion is absent.
StartVersionLoop(locality, breakOnCurrentLocal, old, replies) ==
    LET lockNum == FirstLockNum(locality)
        startVersion == old.knownCommittedVersion + 1
        versions == GetDurableVersion(prevState[lockNum],
                                      LockResultReplies(prevState, replies, lockNum),
                                      {}, NoVersion)
    IN  IF \/ lockNum = 0
           \/ /\ breakOnCurrentLocal
              /\ LockInfo(lockNum).isCurrent
              /\ LockInfo(lockNum).logSet.isLocal
        THEN [ready |-> TRUE, startVersion |-> startVersion, versions |-> NoVersions]
        ELSE IF versions.present
        THEN [ready |-> TRUE,
              startVersion |-> RefinedStartVersion(versions, LockInfo(lockNum).epochEnd,
                                                   startVersion),
              versions |-> versions]
        ELSE [ready |-> FALSE, startVersion |-> startVersion, versions |-> NoVersions]

\* A set of the new LogSystem: its locality, isLocal, startVersion and the
\* getDurableVersion result its start version was refined with, if any.
NewLogSet(locality, isLocal, startVersion, versions) ==
    [locality |-> locality, isLocal |-> isLocal, startVersion |-> startVersion,
     versions |-> versions]

\* newEpoch and newRemoteEpoch wait in their loop on getDurableVersionChanged
\* and go on in the step of the lock reply that makes the result present.
NewEpochContinues(replies) ==
    IF newEpochPc = "startVersion"
    THEN LET r == StartVersionLoop(configuration.primaryLocality, TRUE, oldLogSystem, replies)
         IN  IF r.ready
             THEN /\ logSystem' = [logSystem EXCEPT ![1] =
                         NewLogSet(configuration.primaryLocality, TRUE, r.startVersion,
                                   r.versions)]
                  /\ newEpochPc' = "recruiting"
                  /\ UNCHANGED << oldLogSystem, configuration >>
             ELSE UNCHANGED newEpochVars
    ELSE IF newEpochPc = "remoteStartVersion"
    THEN LET r == StartVersionLoop(configuration.remoteLocality, FALSE, oldLogSystem, replies)
         IN  IF r.ready
             THEN /\ logSystem' = Append(logSystem,
                         NewLogSet(configuration.remoteLocality, FALSE, r.startVersion,
                                   r.versions))
                  /\ newEpochPc' = "done"
                  /\ UNCHANGED << oldLogSystem, configuration >>
             ELSE UNCHANGED newEpochVars
    ELSE UNCHANGED newEpochVars

\* The log servers of the previous epoch.
OldServers == UNION { ServersOf(prevState[log]) : log \in DOMAIN prevState }

\* The set an old log server belongs to.
SetOf(s) == CHOOSE log \in DOMAIN prevState : s \in ServersOf(prevState[log])

\* trackRejoins: a live server whose handle holds no interface rejoins; its
\* handle is set, which restarts its lockTLog and its monitorLog.
TrackRejoins(s) ==
    /\ s \in OldServers
    /\ oldTLogs[s].alive
    /\ ~ logServers[s]
    /\ logServers' = [logServers EXCEPT ![s] = TRUE]
    /\ EpochEndWakes(<< "handle", s >>, lockResults, logFailed)
    /\ UNCHANGED << prevState, oldTLogs, logFailed, lockResults >>
    /\ UNCHANGED notEpochEnd

\* lockTLog: a live server whose interface is known answers the lock request.
TLogLocked(s) ==
    /\ s \in OldServers
    /\ oldTLogs[s].alive
    /\ logServers[s]
    /\ ~ lockResults[s].ready
    /\ lockResults' = [lockResults EXCEPT ![s] =
           [ready |-> TRUE, end |-> oldTLogs[s].version + 1,
            knownCommittedVersion |-> oldTLogs[s].knownCommittedVersion]]
    /\ EpochEndWakes(<< "reply", s >>, lockResults', logFailed)
    /\ UNCHANGED << prevState, oldTLogs, logServers, logFailed >>
    /\ NewEpochContinues(lockResults')
    /\ UNCHANGED << pushVars, popVars, peekVars, configVars, confirmVars, onErrorVars,
                    durableVars, lockVars, routerVars, seedVars, rejoinVars, lockTLogVars, locVars >>

\* monitorLog: the failure tracker of a server whose interface is known
\* brings the flag in line with the server's state.
MonitorLog(s) ==
    /\ s \in OldServers
    /\ logServers[s]
    /\ logFailed[s] # ~ oldTLogs[s].alive
    /\ logFailed' = [logFailed EXCEPT ![s] = ~ oldTLogs[s].alive]
    /\ EpochEndWakes(<< "failed", s >>, lockResults, logFailed')
    /\ UNCHANGED << prevState, oldTLogs, logServers, lockResults >>
    /\ UNCHANGED notEpochEnd

\* The old servers of set log that are dead.
Dead(log) == { s \in ServersOf(prevState[log]) : ~ oldTLogs[s].alive }

\* A server of the previous epoch fails for good.  In a local set fewer
\* than R - A servers fail.
TLogFails(s) ==
    /\ s \in OldServers
    /\ oldTLogs[s].alive
    /\ LET log == SetOf(s)
       IN  prevState[log].isLocal =>
              Cardinality(Dead(log)) + 1 <
                 prevState[log].tLogReplicationFactor - prevState[log].tLogWriteAntiQuorum
    /\ oldTLogs' = [oldTLogs EXCEPT ![s].alive = FALSE]
    /\ UNCHANGED << prevState, logServers, logFailed, lockResults, changes,
                    lastEnd, knownCommittedVersion, outLogSystem >>
    /\ UNCHANGED notEpochEnd

\* epochEnd up to its first wait: every handle holds an id only, so every
\* monitorLog has set its flag; no lock reply is ready and the first
\* iteration of the loop publishes nothing.  Every old server knows its last
\* version as committed.
EpochEndInit ==
    /\ Idle({ "epochEnd" })
    /\ prevState \in PrevStates
    /\ oldTLogs \in [ Servers -> [ alive : { TRUE }, version : 0 .. MaxOldVersion,
                                   knownCommittedVersion : 0 .. MaxOldVersion ] ]
    /\ \A s \in Servers : oldTLogs[s].knownCommittedVersion = oldTLogs[s].version
    /\ logServers = [ s \in Servers |-> FALSE ]
    /\ logFailed = [ s \in Servers |-> TRUE ]
    /\ lockResults = [ s \in Servers |-> NoReply ]
    /\ lastEnd = NoVersion
    /\ knownCommittedVersion = 0
    /\ outLogSystem = NoLogSystem
    /\ changes = EpochEndRound(prevState, lockResults, logFailed, NoVersion, 0,
                               NoLogSystem).changes

EpochEndNext ==
    \/ \E s \in Servers : TrackRejoins(s)
    \/ \E s \in Servers : TLogLocked(s)
    \/ \E s \in Servers : MonitorLog(s)
    \/ \E s \in Servers : TLogFails(s)

\* What is due at the recovering master: the rejoin of a live server, the
\* lock reply of a live server, the report of a failure tracker.  The step
\* is named by the change it makes to the handle, the reply or the flag;
\* the steps of EpochEndNext that make the change are exactly those of
\* TrackRejoins(s), TLogLocked(s) and MonitorLog(s).
Due(s) ==
    \/ /\ oldTLogs[s].alive /\ ~ logServers[s]
       /\ logServers' = [logServers EXCEPT ![s] = TRUE]
       /\ UNCHANGED << lockResults, logFailed >>
    \/ /\ oldTLogs[s].alive /\ logServers[s] /\ ~ lockResults[s].ready
       /\ lockResults' = [lockResults EXCEPT ![s] =
              [ready |-> TRUE, end |-> oldTLogs[s].version + 1,
               knownCommittedVersion |-> oldTLogs[s].knownCommittedVersion]]
       /\ UNCHANGED << logServers, logFailed >>
    \/ /\ logServers[s] /\ logFailed[s] # ~ oldTLogs[s].alive
       /\ logFailed' = [logFailed EXCEPT ![s] = ~ oldTLogs[s].alive]
       /\ UNCHANGED << logServers, lockResults >>

\* Fair scheduling: whatever stays due eventually happens.
EpochEndFairness ==
    \A s \in Servers : WF_<< logServers, lockResults, logFailed >>(Due(s))

EpochEndSpec == EpochEndInit /\ [][EpochEndNext]_vars /\ EpochEndFairness

\* C4: when in every local set of the previous epoch fewer than R - A
\* servers fail and all others rejoin and answer their lock request,
\* epochEnd eventually publishes a stopped LogSystem.
EpochEndPublishes == <>(outLogSystem.present /\ outLogSystem.stopped)

\* C4 witness: a stopped LogSystem is published although a server of a
\* local set is dead and never answered its lock request.
EpochEndPublishesWitness ==
    /\ outLogSystem.present /\ outLogSystem.stopped
    /\ \E log \in DOMAIN prevState : \E s \in Dead(log) :
          /\ prevState[log].isLocal
          /\ ~ lockResults[s].ready

\* The step is one of a future the main loop of epochEnd waits on: the loop
\* makes a round in it.
EpochEndRoundMade ==
    \E s \in Servers :
       \/ logServers'[s] # logServers[s] /\ << "handle", s >> \in changes
       \/ lockResults'[s] # lockResults[s] /\ << "reply", s >> \in changes
       \/ logFailed'[s] # logFailed[s] /\ << "failed", s >> \in changes

\* What getDurableVersion yields for set log in the round of the step.
EpochEndYield(log) ==
    GetDurableVersion(prevState[log], LockResultReplies(prevState, lockResults', log),
                      FailedPositions(prevState, logFailed', log), lastEnd)

\* C19: a round of the main loop of epochEnd publishes a stopped LogSystem
\* iff a local set yielded a durable version, the largest end yielded is
\* above 0 and nothing was published before or that end is below lastEnd;
\* the published system has the smallest end the local sets yielded in the
\* round as epochEndVersion, the largest known committed version seen so
\* far as knownCommittedVersion, and stopped and
\* remoteLogsWrittenToCoreState set; a set that is not local contributes
\* nothing.
EpochEndPublishesPerRound ==
    [][ LET yield == [ log \in DOMAIN prevState |-> EpochEndYield(log) ]
            yielded == { log \in DOMAIN prevState :
                           prevState[log].isLocal /\ yield[log].present }
            ends == { yield[log].second : log \in yielded }
            seen == Max(knownCommittedVersion,
                        SetMax({ yield[log].first : log \in yielded }))
            due == /\ yielded # {}
                   /\ SetMax(ends) > 0
                   /\ ~ outLogSystem.present \/ SetMax(ends) < lastEnd.value
        IN  IF EpochEndRoundMade
            THEN /\ outLogSystem' # outLogSystem <=> due
                 /\ knownCommittedVersion' = seen
                 /\ due => /\ outLogSystem' =
                                [present |-> TRUE, epochEndVersion |-> SetMin(ends),
                                 knownCommittedVersion |-> seen, stopped |-> TRUE,
                                 remoteLogsWrittenToCoreState |-> TRUE]
                           /\ lastEnd' = SomeVersion(SetMin(ends))
            ELSE UNCHANGED << outLogSystem, lastEnd, knownCommittedVersion >>
      ]_vars

\* C19 witness: a LogSystem published in a later round, below the end a
\* local set yielded before, with a known committed version seen earlier.
EpochEndPublishesPerRoundWitness ==
    /\ outLogSystem.present
    /\ outLogSystem.knownCommittedVersion >= outLogSystem.epochEndVersion
    /\ \E s \in OldServers :
          /\ prevState[SetOf(s)].isLocal
          /\ lockResults[s].ready
          /\ lockResults[s].end > outLogSystem.epochEndVersion

\* The largest end the local sets yield in the round of the step.
EpochEndMaxEnd ==
    SetMax({ EpochEndYield(log).second :
               log \in { l \in DOMAIN prevState :
                           prevState[l].isLocal /\ EpochEndYield(l).present } })

\* C35: a step of epochEnd that replaces a published LogSystem publishes one
\* with a smaller epochEndVersion and a knownCommittedVersion that is not
\* smaller, in a round whose largest durable end is below the epochEndVersion
\* published before; lastEnd is the epochEndVersion published last.
EpochEndVersionsDecrease ==
    [][ /\ knownCommittedVersion' >= knownCommittedVersion
        /\ outLogSystem'.present => lastEnd' = SomeVersion(outLogSystem'.epochEndVersion)
        /\ ( outLogSystem.present /\ outLogSystem' # outLogSystem ) =>
              /\ outLogSystem'.present /\ outLogSystem'.stopped
              /\ outLogSystem'.epochEndVersion < outLogSystem.epochEndVersion
              /\ outLogSystem'.knownCommittedVersion >= outLogSystem.knownCommittedVersion
              /\ EpochEndMaxEnd < outLogSystem.epochEndVersion
      ]_vars

\* C35 witness: in a previous epoch of two local sets that each yield a
\* durable version from one reply, a LogSystem is published whose
\* knownCommittedVersion is not below its epochEndVersion: it was seen in an
\* earlier publication of a larger end.
EpochEndVersionsDecreaseWitness ==
    /\ Len(prevState) = 2
    /\ \A log \in DOMAIN prevState : prevState[log].isLocal
    /\ outLogSystem.present
    /\ outLogSystem.knownCommittedVersion >= outLogSystem.epochEndVersion

----------------------------------------------------------------------------
(* newEpoch and newRemoteEpoch: the start versions of the sets of the new  *)
(* LogSystem.  The servers of the new sets are recruited between the two.  *)

\* The previous epochs newEpoch is followed from: a primary set next to a
\* remote set, and a primary set alone.
NewEpochPrevStates ==
    { << LogSet(<<1>>, <<"z1">>, 1, 0, TRUE, "primary"),
         LogSet(<<2>>, <<"z2">>, 1, 0, FALSE, "remote") >>,
      << LogSet(<<1, 2>>, <<"z1", "z2">>, 2, 0, TRUE, "primary") >> }

\* The data centers the new primary and the new remote sets can be in.
Localities == { "primary", "remote" }

\* newEpoch up to its first wait: the primary set and, when the region has
\* satellites, the satellite set; the primary start version if its loop is
\* through at once.
NewEpoch(primaryLocality, remoteLocality, satellite, remote) ==
    /\ newEpochPc = "idle"
    /\ outLogSystem.present
    /\ oldLogSystem' = outLogSystem
    /\ configuration' = [primaryLocality |-> primaryLocality,
                         remoteLocality |-> remoteLocality,
                         satellite |-> satellite, remote |-> remote]
    /\ LET r == StartVersionLoop(primaryLocality, TRUE, outLogSystem, lockResults)
           satellites ==
               IF satellite
               THEN << NewLogSet("invalid", TRUE, outLogSystem.knownCommittedVersion + 1,
                                 NoVersions) >>
               ELSE << >>
       IN  /\ logSystem' = << NewLogSet(primaryLocality, TRUE, r.startVersion, r.versions) >>
                               \o satellites
           /\ newEpochPc' = IF r.ready THEN "recruiting" ELSE "startVersion"
    /\ UNCHANGED notNewEpoch

\* The new log servers answered: newEpoch returns the LogSystem and, when
\* the configuration has remote logs, has started newRemoteEpoch.
NewEpochRecruited ==
    /\ newEpochPc = "recruiting"
    /\ newEpochPc' = IF configuration.remote THEN "remoteWorkers" ELSE "done"
    /\ UNCHANGED << oldLogSystem, configuration, logSystem >>
    /\ UNCHANGED notNewEpoch

\* newRemoteEpoch once the remote workers are known: the remote set and its
\* start version if its loop is through at once.
NewRemoteEpoch ==
    /\ newEpochPc = "remoteWorkers"
    /\ LET r == StartVersionLoop(configuration.remoteLocality, FALSE, oldLogSystem,
                                 lockResults)
       IN  IF r.ready
           THEN /\ logSystem' = Append(logSystem,
                       NewLogSet(configuration.remoteLocality, FALSE, r.startVersion,
                                 r.versions))
                /\ newEpochPc' = "done"
           ELSE /\ newEpochPc' = "remoteStartVersion"
                /\ UNCHANGED logSystem
    /\ UNCHANGED << oldLogSystem, configuration >>
    /\ UNCHANGED notNewEpoch

NewEpochInit ==
    /\ Idle({ "epochEnd" })
    /\ prevState \in NewEpochPrevStates
    /\ oldTLogs \in [ Servers -> [ alive : { TRUE }, version : 0 .. MaxOldVersion,
                                   knownCommittedVersion : 0 .. MaxOldVersion ] ]
    /\ \A s \in Servers : oldTLogs[s].knownCommittedVersion \in { 0, oldTLogs[s].version }
    /\ \A s \in Servers \ OldServers : oldTLogs[s].version = 0
    /\ logServers = [ s \in Servers |-> FALSE ]
    /\ logFailed = [ s \in Servers |-> TRUE ]
    /\ lockResults = [ s \in Servers |-> NoReply ]
    /\ lastEnd = NoVersion
    /\ knownCommittedVersion = 0
    /\ outLogSystem = NoLogSystem
    /\ changes = EpochEndRound(prevState, lockResults, logFailed, NoVersion, 0,
                               NoLogSystem).changes

NewEpochNext ==
    \/ \E s \in Servers : TrackRejoins(s)
    \/ \E s \in Servers : TLogLocked(s)
    \/ \E s \in Servers : MonitorLog(s)
    \/ \E s \in Servers : TLogFails(s)
    \/ \E primaryLocality, remoteLocality \in Localities : \E satellite, remote \in BOOLEAN :
          /\ primaryLocality # remoteLocality
          /\ NewEpoch(primaryLocality, remoteLocality, satellite, remote)
    \/ NewEpochRecruited
    \/ NewRemoteEpoch

NewEpochSpec == NewEpochInit /\ [][NewEpochNext]_vars

----------------------------------------------------------------------------
(* pop, popLogRouter and popFromLog.  outstandingPops is a std::map read   *)
(* with operator[], which makes a missing entry (0, 0): an erased entry    *)
(* and an entry (0, 0) are the same to every reader.                       *)

\* pop is called at most MaxPopCalls times, with upTo in 1..MaxUpTo.
MaxPopCalls == 2
MaxUpTo == 2

\* The known committed version a caller passes with upTo: the version
\* before it.
PopKnownCommitted(upTo) == Max(upTo - 1, 0)

\* The LogSystem pops are made on: a local current set with log server 1, a
\* non-local current set with log server 2, and an old generation whose set
\* of the primary locality has log router 3.
PopTLogs == << [logServers |-> <<1>>, logRouters |-> << >>, locality |-> "primary",
                isLocal |-> TRUE],
               [logServers |-> <<2>>, logRouters |-> << >>, locality |-> "remote",
                isLocal |-> FALSE] >>
PopOldLogData == << << [logServers |-> << >>, logRouters |-> <<3>>,
                        locality |-> "primary", isLocal |-> TRUE] >> >>

PopTags == { "tag", "remoteLog" }
PopLocalities == { "primary", "invalid" }
PopKeys == Servers \X PopTags

NoPop == << 0, 0 >>

\* The log routers popLogRouter visits, and the log servers pop visits.
PopLogRouterTargets(popLocality) ==
    LET routers(sets) == { SeqRange(sets[i].logRouters) :
                              i \in { j \in DOMAIN sets : sets[j].locality = popLocality } }
    IN  UNION ( routers(PopTLogs)
                \cup UNION { routers(PopOldLogData[g]) : g \in DOMAIN PopOldLogData } )

\* A pop that visits the log servers of the local sets only.
PopTargetsLocalSets(tag, popLocality) ==
    IF tag = "remoteLog" THEN PopLogRouterTargets(popLocality)
    ELSE UNION { SeqRange(PopTLogs[i].logServers) :
                    i \in { j \in DOMAIN PopTLogs : PopTLogs[j].isLocal } }

PopTargets(tag, popLocality) ==
    IF tag = "remoteLog" THEN PopLogRouterTargets(popLocality)
    ELSE UNION { SeqRange(PopTLogs[i].logServers) : i \in DOMAIN PopTLogs }

\* A pop that starts a task for every server it visits.
PopSpawnsAlways(prev, upTo) == TRUE

\* A pop that starts a task whenever it advances the entry.
PopSpawnsOnAdvance(prev, upTo) == prev < upTo

\* if (prev == 0) actors.add( popFromLog(...) )
PopSpawns(prev, upTo) == prev = 0

\* An entry that takes the new upTo without the known committed version.
PopEntryNoKnownCommitted(entry, upTo, kcv) == << upTo, 0 >>

\* An entry that takes the new upTo and keeps the known committed version it
\* was created with.
PopEntryKeepsKnownCommitted(entry, upTo, kcv) ==
    IF entry = NoPop THEN << upTo, kcv >> ELSE << upTo, entry[2] >>

\* outstandingPops[key] = std::make_pair(upTo, knownCommittedVersion)
PopEntry(entry, upTo, kcv) == << upTo, kcv >>

\* pop(upTo, tag, knownCommittedVersion, popLocality), popLogRouter included.
Pop(upTo, tag, kcv, popLocality) ==
    /\ popCalls < MaxPopCalls
    /\ popCalls' = popCalls + 1
    /\ \A k \in PopKeys : popEnded[k] # "actor_cancelled"
    /\ tag # "remoteLog" => popLocality = "invalid"
    /\ LET targets == IF upTo <= 0 THEN {} ELSE PopTargets(tag, popLocality)
           prev(k) == outstandingPops[k][1]
           hit(k) == k[1] \in targets /\ k[2] = tag
       IN  /\ outstandingPops' = [ k \in PopKeys |->
                  IF hit(k) /\ prev(k) < upTo THEN PopEntry(outstandingPops[k], upTo, kcv)
                  ELSE outstandingPops[k] ]
           /\ popActors' = [ k \in PopKeys |->
                  IF hit(k) /\ PopSpawns(prev(k), upTo)
                  THEN Append(popActors[k], [pc |-> "delay", last |-> 0, to |-> NoPop])
                  ELSE popActors[k] ]
    /\ UNCHANGED << popHandles, popsSent, popEnded >>
    /\ UNCHANGED notPop

\* The sequence without its element at position n.
RemoveAt(seq, n) == SubSeq(seq, 1, n - 1) \o SubSeq(seq, n + 1, Len(seq))

\* A popFromLog that goes on sending while the entry has not moved back.
PopFromLogDoneBelow(to, last) == to[1] < last

\* if (to.first <= last): nothing new to send.
PopFromLogDone(to, last) == to[1] <= last

\* popFromLog after its delay: reads the entry; erases it and ends when
\* there is nothing new; ends when the handle holds no interface; else
\* sends the TLogPopRequest.
PopFromLogWakes(k, n) ==
    /\ n \in DOMAIN popActors[k]
    /\ popActors[k][n].pc = "delay"
    /\ LET to == outstandingPops[k]
           last == popActors[k][n].last
       IN  IF PopFromLogDone(to, last)
           THEN /\ outstandingPops' = [outstandingPops EXCEPT ![k] = NoPop]
                /\ popActors' = [popActors EXCEPT ![k] = RemoveAt(@, n)]
                /\ UNCHANGED popsSent
           ELSE IF ~ popHandles[k[1]]
           THEN /\ popActors' = [popActors EXCEPT ![k] = RemoveAt(@, n)]
                /\ UNCHANGED << outstandingPops, popsSent >>
           ELSE /\ Len(popsSent[k]) < MaxPopCalls
                /\ popActors' = [popActors EXCEPT ![k][n] =
                       [pc |-> "popMessages", last |-> last, to |-> to]]
                /\ popsSent' = [popsSent EXCEPT ![k] =
                       Append(@, [upTo |-> to[1], last |-> last])]
                /\ UNCHANGED outstandingPops
    /\ UNCHANGED << popHandles, popCalls, popEnded >>
    /\ UNCHANGED notPop

\* The server answers the TLogPopRequest: last = to.first, next delay.
PopFromLogReply(k, n) ==
    /\ n \in DOMAIN popActors[k]
    /\ popActors[k][n].pc = "popMessages"
    /\ popActors' = [popActors EXCEPT ![k][n] =
           [pc |-> "delay", last |-> @.to[1], to |-> @.to]]
    /\ UNCHANGED << popHandles, outstandingPops, popsSent, popCalls, popEnded >>
    /\ UNCHANGED notPop

\* A popFromLog that erases the entry when its request fails.
PopFromLogCaughtErases(k) == [outstandingPops EXCEPT ![k] = NoPop]

\* catch (Error& e): return Void() leaves outstandingPops filled in.
PopFromLogCaught(k) == outstandingPops

\* The request fails with an error that is not actor_cancelled: the task
\* ends, without an error of its own.
PopFromLogError(k, n) ==
    /\ n \in DOMAIN popActors[k]
    /\ popActors[k][n].pc = "popMessages"
    /\ popActors' = [popActors EXCEPT ![k] = RemoveAt(@, n)]
    /\ outstandingPops' = PopFromLogCaught(k)
    /\ popEnded' = [popEnded EXCEPT ![k] = "returned"]
    /\ UNCHANGED << popHandles, popsSent, popCalls >>
    /\ UNCHANGED notPop

\* The LogSystem is destroyed, and its actors and outstandingPops with it:
\* every popFromLog task is cancelled at its wait, and one that waits for
\* the reply of its request throws the actor_cancelled it catches.
PopFromLogCancelled ==
    /\ \E k \in PopKeys : Len(popActors[k]) > 0
    /\ popActors' = [ k \in PopKeys |-> << >> ]
    /\ outstandingPops' = [ k \in PopKeys |-> NoPop ]
    /\ popEnded' = [ k \in PopKeys |->
           IF Len(popActors[k]) > 0 THEN "actor_cancelled" ELSE popEnded[k] ]
    /\ UNCHANGED << popHandles, popsSent, popCalls >>
    /\ UNCHANGED notPop

PopInit ==
    /\ Idle({ "pop" })
    /\ popHandles \in { [ s \in Servers |-> TRUE ], [ s \in Servers |-> s # 2 ] }
    /\ outstandingPops = [ k \in PopKeys |-> NoPop ]
    /\ popActors = [ k \in PopKeys |-> << >> ]
    /\ popsSent = [ k \in PopKeys |-> << >> ]
    /\ popCalls = 0
    /\ popEnded = [ k \in PopKeys |-> "no" ]

PopNext ==
    \/ \E upTo \in 0 .. MaxUpTo, tag \in PopTags, popLocality \in PopLocalities :
          Pop(upTo, tag, PopKnownCommitted(upTo), popLocality)
    \/ \E k \in PopKeys, n \in 1 .. MaxPopCalls : PopFromLogWakes(k, n)
    \/ \E k \in PopKeys, n \in 1 .. MaxPopCalls : PopFromLogReply(k, n)
    \/ \E k \in PopKeys, n \in 1 .. MaxPopCalls : PopFromLogError(k, n)
    \/ PopFromLogCancelled

PopSpec == PopInit /\ [][PopNext]_vars

\* The TLogPopRequests of (id, tag) that are in flight.
PopsInFlight(k) == { n \in DOMAIN popActors[k] : popActors[k][n].pc = "popMessages" }

\* C6: for every (id, tag), at most one popFromLog task exists and at most
\* one TLogPopRequest is in flight.
AtMostOnePop ==
    \A k \in PopKeys :
        /\ Len(popActors[k]) <= 1
        /\ Cardinality(PopsInFlight(k)) <= 1

\* C6 witness: while a request of a pair is in flight, a later pop moved the
\* pair's entry past the version of the request, and no second task exists.
AtMostOnePopWitness ==
    \E k \in PopKeys :
        /\ Len(popActors[k]) = 1
        /\ popActors[k][1].pc = "popMessages"
        /\ outstandingPops[k][1] > popActors[k][1].to[1]

\* C7: every TLogPopRequest a popFromLog task sends carries an upTo above
\* the upTo of the request the same task sent before it (0 for the first
\* request of a task).
PopsOfOneTaskIncrease ==
    \A k \in PopKeys : \A i \in DOMAIN popsSent[k] :
        popsSent[k][i].upTo > popsSent[k][i].last

\* C7 witness: a task sent a second request, and a task that was started
\* after an earlier one of its pair had ended sent a request.
PopsOfOneTaskIncreaseWitness ==
    /\ \E k \in PopKeys : \E i \in DOMAIN popsSent[k] : popsSent[k][i].last > 0
    /\ \E k \in PopKeys : \E i \in DOMAIN popsSent[k] :
          i > 1 /\ popsSent[k][i].last = 0

\* C7 as stated: over the whole lifetime the upTo values sent for a pair
\* are strictly increasing.
PopsSentIncrease ==
    \A k \in PopKeys : \A i, j \in DOMAIN popsSent[k] :
        i < j => popsSent[k][i].upTo < popsSent[k][j].upTo

\* C17: while (server, tag) has an entry, a pop call whose upTo is not
\* greater than the entry's upTo changes neither value of the entry and
\* spawns no task, and one with a greater upTo replaces both values and
\* spawns no task; the upTo of an entry never decreases while the entry
\* exists; and a task is spawned only by a pop call that finds no entry.
PopCoalesces ==
    [][ /\ \A upTo \in 0 .. MaxUpTo, tag \in PopTags, popLocality \in PopLocalities :
             ( /\ popCalls' # popCalls
               /\ Pop(upTo, tag, PopKnownCommitted(upTo), popLocality) ) =>
                \A k \in PopKeys :
                   LET entry == outstandingPops[k]
                       called == /\ upTo > 0
                                 /\ k[2] = tag
                                 /\ k[1] \in PopTargets(tag, popLocality)
                   IN  /\ (called /\ entry # NoPop /\ upTo <= entry[1])
                            => outstandingPops'[k] = entry /\ popActors'[k] = popActors[k]
                       /\ (called /\ entry # NoPop /\ upTo > entry[1])
                            => /\ outstandingPops'[k] = << upTo, PopKnownCommitted(upTo) >>
                               /\ popActors'[k] = popActors[k]
                       /\ Len(popActors'[k]) > Len(popActors[k])
                            => called /\ entry = NoPop
        /\ \A k \in PopKeys :
              ( /\ outstandingPops[k] # NoPop
                /\ outstandingPops'[k] # NoPop )
              => outstandingPops'[k][1] >= outstandingPops[k][1]
        /\ \A k \in PopKeys :
              Len(popActors'[k]) > Len(popActors[k]) => popCalls' # popCalls
      ]_vars

\* C17 witness: a pop raised both values of the entry of a pair whose task
\* has a request in flight, and no second task exists.
PopCoalescesWitness ==
    \E k \in PopKeys :
        /\ Len(popActors[k]) = 1
        /\ popActors[k][1].pc = "popMessages"
        /\ popActors[k][1].to = << 1, 0 >>
        /\ outstandingPops[k] = << 2, 1 >>

\* C18: a popFromLog task whose request fails with an error other than
\* actor_cancelled ends without an error of its own and leaves the entry of
\* its pair in outstandingPops; from then on, as long as the LogSystem
\* lives, the entry stays, no pop call spawns a task for the pair and no
\* request is sent for it. A task that is cancelled ends with
\* actor_cancelled.
PopErrorEndsPops ==
    [][ \A k \in PopKeys :
          /\ ( popEnded[k] # "returned" /\ popEnded'[k] = "returned" )
               => /\ outstandingPops[k] # NoPop
                  /\ outstandingPops'[k] = outstandingPops[k]
                  /\ Len(popActors[k]) = 1
                  /\ popActors'[k] = << >>
          /\ popEnded[k] = "returned"
               => /\ popEnded'[k] = "returned"
                  /\ popActors'[k] = << >>
                  /\ popsSent'[k] = popsSent[k]
                  /\ \/ outstandingPops'[k] # NoPop
                     \/ \E other \in PopKeys : popEnded'[other] = "actor_cancelled"
          /\ ( popEnded[k] # "actor_cancelled" /\ popEnded'[k] = "actor_cancelled" )
               => Len(popActors[k]) > 0 /\ popActors'[k] = << >>
          /\ ( /\ Len(popActors[k]) > 0
                /\ \E other \in PopKeys : popEnded'[other] = "actor_cancelled" )
               => popEnded'[k] = "actor_cancelled"
      ]_vars

\* C18 witness: after the request of a pair failed, a pop call raised the
\* entry of the pair above the version of that request, and the pair has no
\* task.
PopErrorEndsPopsWitness ==
    \E k \in PopKeys :
        /\ popEnded[k] = "returned"
        /\ popActors[k] = << >>
        /\ Len(popsSent[k]) > 0
        /\ outstandingPops[k][1] > popsSent[k][Len(popsSent[k])].upTo

\* The log servers of the current sets, and those of the local ones.
PopCurrentServers == UNION { SeqRange(PopTLogs[i].logServers) : i \in DOMAIN PopTLogs }
PopLocalServers ==
    UNION { SeqRange(PopTLogs[i].logServers) :
               i \in { j \in DOMAIN PopTLogs : PopTLogs[j].isLocal } }

\* A step changed the entry of the pair or gave it a task.
PopTouched(k) ==
    \/ outstandingPops'[k] # outstandingPops[k] /\ outstandingPops'[k] # NoPop
    \/ Len(popActors'[k]) > Len(popActors[k])

\* C12: a pop of a tag whose locality is not remoteLog creates or upgrades
\* entries and spawns tasks only for log servers of the current sets, and
\* leaves every log server of every current set, local or not, with an
\* entry of at least the upTo it installed.
PopTargetsCurrentSets ==
    [][ popCalls' # popCalls =>
          \A k \in PopKeys :
              (k[2] # "remoteLog" /\ PopTouched(k)) =>
                  /\ k[1] \in PopCurrentServers
                  /\ \A s \in PopCurrentServers :
                        outstandingPops'[<< s, k[2] >>][1] >= outstandingPops'[k][1]
      ]_vars

\* C12 witness: a pop of a tag whose locality is not remoteLog left an
\* entry and a task for the log server of the local set and for that of the
\* non-local set.
PopTargetsCurrentSetsWitness ==
    \A s \in PopCurrentServers :
        /\ outstandingPops[<< s, "tag" >>][1] > 0
        /\ Len(popActors[<< s, "tag" >>]) = 1

\* C12 as stated: such a pop creates or upgrades entries and spawns tasks
\* only for log servers of the local sets.
PopTargetsLocalSetsOnly ==
    [][ popCalls' # popCalls =>
          \A k \in PopKeys :
              (k[2] # "remoteLog" /\ PopTouched(k)) => k[1] \in PopLocalServers
      ]_vars

----------------------------------------------------------------------------
(* pop on a LogSystem whose handles receive their interface                *)

\* The handle of server s receives an interface; popFromLog does not wait
\* on the handle.
PopHandleAppears(s) ==
    /\ ~ popHandles[s]
    /\ popHandles' = [popHandles EXCEPT ![s] = TRUE]
    /\ UNCHANGED << outstandingPops, popActors, popsSent, popCalls, popEnded >>
    /\ UNCHANGED notPop

PopHandleNext ==
    \/ PopNext
    \/ \E s \in Servers : PopHandleAppears(s)

PopHandleSpec == PopInit /\ [][PopHandleNext]_vars

\* The step ends the popFromLog task of (id, tag) at the test of the
\* handle: the task was through its delay with something new to send, the
\* handle holds no interface, and the task is gone without an error and
\* without the LogSystem being destroyed.
PopEndsAtAbsentHandle(k) ==
    /\ Len(popActors[k]) = 1
    /\ popActors[k][1].pc = "delay"
    /\ ~ PopFromLogDone(outstandingPops[k], popActors[k][1].last)
    /\ ~ popHandles[k[1]]
    /\ popActors'[k] = << >>
    /\ popEnded' = popEnded

\* (id, tag) has an entry, no task, and no task of it ended with an error:
\* its task ended at the test of the handle.
PopLeftBehind(k) ==
    /\ outstandingPops[k] # NoPop
    /\ popActors[k] = << >>
    /\ popEnded[k] = "no"

\* C38: a popFromLog task that finds the handle without an interface when
\* it is about to send ends without sending and leaves the entry of
\* (id, tag) as it is; from then on, as long as the LogSystem exists, the
\* entry stays, no pop starts a task for (id, tag) and no request is sent
\* for it, whatever the handle holds.
PopAbsentEndsPops ==
    [][ \A k \in PopKeys :
          /\ Len(popActors[k]) <= 1
          /\ PopEndsAtAbsentHandle(k) =>
                /\ popsSent' = popsSent
                /\ outstandingPops' = outstandingPops
                /\ PopLeftBehind(k)'
          /\ PopLeftBehind(k) =>
                /\ popActors'[k] = << >>
                /\ popsSent'[k] = popsSent[k]
                /\ PopLeftBehind(k)' \/ popEnded' # popEnded
                /\ outstandingPops'[k][1] >= outstandingPops[k][1]
                      \/ popEnded' # popEnded
      ]_vars

\* C38 witness: the entry of (id, tag) was left behind without a request
\* ever sent, pop has since been called with the largest upTo, and the
\* handle holds an interface again.
PopAbsentEndsPopsWitness ==
    \E k \in PopKeys :
        /\ PopLeftBehind(k)
        /\ popHandles[k[1]]
        /\ popsSent[k] = << >>
        /\ popCalls = MaxPopCalls
        /\ outstandingPops[k] = << MaxUpTo, PopKnownCommitted(MaxUpTo) >>

----------------------------------------------------------------------------
(* pop on a LogSystem whose handles hold an interface and whose servers    *)
(* answer every TLogPopRequest, under fair scheduling                      *)

PopLiveInit ==
    /\ PopInit
    /\ \A s \in Servers : popHandles[s]

\* A step of a popFromLog task: the end of its delay or the reply to its
\* request.
PopTaskStep ==
    \E k \in PopKeys, n \in 1 .. MaxPopCalls :
        PopFromLogWakes(k, n) \/ PopFromLogReply(k, n)

PopLiveNext ==
    \/ \E upTo \in 1 .. MaxUpTo, tag \in PopTags, popLocality \in PopLocalities :
          Pop(upTo, tag, PopKnownCommitted(upTo), popLocality)
    \/ PopTaskStep

\* Delays end and requests are answered: a task that can take a step is not
\* left waiting forever.
PopLiveFairness == WF_popVars(PopTaskStep)

PopLiveSpec == PopLiveInit /\ [][PopLiveNext]_vars /\ PopLiveFairness

\* pop has left upTo or more in the entry of (id, tag) and the task of the
\* pair has not sent as much yet.
PopOwed(k, upTo) ==
    /\ outstandingPops[k][1] >= upTo
    /\ \A n \in DOMAIN popActors[k] :
          /\ popActors[k][n].last < upTo
          /\ popActors[k][n].pc = "popMessages" => popActors[k][n].to[1] < upTo

\* A request for (id, tag) is in flight with upTo or more and the known
\* committed version that was passed to pop with the value it carries.
PopOnItsWay(k, upTo) ==
    \E n \in DOMAIN popActors[k] :
        /\ popActors[k][n].pc = "popMessages"
        /\ popActors[k][n].to[1] >= upTo
        /\ popActors[k][n].to[2] = PopKnownCommitted(popActors[k][n].to[1])
        /\ popsSent[k][Len(popsSent[k])].upTo = popActors[k][n].to[1]

\* The pairs (id, tag) of the servers some pop of the tag visits.
PopVisitedKeys ==
    { k \in PopKeys : \E popLocality \in PopLocalities :
                         k[1] \in PopTargets(k[2], popLocality) }

\* No entry and no task is left.
PopAllDone ==
    \A k \in PopKeys : outstandingPops[k] = NoPop /\ popActors[k] = << >>

\* C39: with handles that hold an interface and requests that are answered,
\* under fair scheduling, a pop with upTo > 0 for (id, tag) leads to a
\* request to that server for that tag with at least upTo, carrying the
\* known committed version passed with the value sent; and once pop is
\* called no more, every task ends and every entry is removed.
PopEventuallySent ==
    /\ \A k \in PopVisitedKeys : \A upTo \in 1 .. MaxUpTo :
          PopOwed(k, upTo) ~> PopOnItsWay(k, upTo)
    /\ <>[]PopAllDone

\* C39 witness: a second request of one task is in flight, with the value
\* and the known committed version of a pop that was called while the
\* first was.
PopEventuallySentWitness ==
    \E k \in PopKeys :
        /\ PopOnItsWay(k, MaxUpTo)
        /\ Len(popsSent[k]) = 2
        /\ popsSent[k][2].last = popsSent[k][1].upTo

----------------------------------------------------------------------------
(* peek, peekAll and peekRemote build a cursor over the generations of a   *)
(* LogSystem.  The cursor classes are outside this file; what they yield   *)
(* is taken from their description.                                        *)

\* Versions pushed are 1..MaxPeekVersion; a LogSystem keeps at most
\* MaxOldGenerations old generations.
MaxPeekVersion == 2
MaxOldGenerations == 1
MaxKnownCommittedLag == 1

\* Tags: an ordinary tag of the primary data center, the txs tag (locality
\* special) and a tag of locality remoteLog.
PrimaryTag == [locality |-> "primary", id |-> 0]
TxsTag == [locality |-> "special", id |-> 1]
RemoteLogTag == [locality |-> "remoteLog", id |-> 0]
PeekTags == { PrimaryTag, TxsTag, RemoteLogTag }

\* The tags of the messages of one version: those of a mutation, which is
\* also tagged for the log routers, or that of the transaction state.
PushTags == { { PrimaryTag, RemoteLogTag }, { TxsTag } }

PeekSet(local, servers, routers, start, best, loc) ==
    [isLocal |-> local, logServers |-> servers, logRouters |-> routers,
     startVersion |-> start, hasBestPolicy |-> best, locality |-> loc]

\* getPeekEnd()
GetPeekEnd == IF peekEpochEnd.present THEN peekEpochEnd.value + 1 ELSE VersionLimit

\* The positions of the local sets with servers: localSets.
LocalSets(sets) == { t \in DOMAIN sets : sets[t].isLocal /\ sets[t].logServers > 0 }

\* max(floor, startVersion of the given sets)
MaxStart(sets, T, floor) == SetMax({ floor } \cup { sets[t].startVersion : t \in T })

\* bestSet, had the search stopped at the first set that matches.
BestSetFirst(sets, tag) ==
    LET matches == { t \in LocalSets(sets) :
                       /\ sets[t].hasBestPolicy
                       /\ \/ sets[t].locality = tag.locality
                          \/ tag.locality = "special"
                          \/ sets[t].locality \in { "special", "upgraded" } }
        best == { t \in LocalSets(sets) : sets[t].hasBestPolicy }
    IN  IF matches # {} THEN SetMin(matches) ELSE SetMax(best)

\* bestSet == -1 ? nextBestSet : bestSet, as a position in sets (0: none).
BestSet(sets, tag) ==
    LET matches == { t \in LocalSets(sets) :
                       /\ sets[t].hasBestPolicy
                       /\ \/ sets[t].locality = tag.locality
                          \/ tag.locality = "special"
                          \/ sets[t].locality \in { "special", "upgraded" } }
        best == { t \in LocalSets(sets) : sets[t].hasBestPolicy }
    IN  IF matches # {} THEN SetMax(matches) ELSE SetMax(best)

\* A SetPeekCursor over the local sets of generation gen (0: current).
SetPeekCursor(gen, sets, tag, begin, end) ==
    [type |-> "SetPeekCursor", gen |-> gen, sets |-> LocalSets(sets),
     bestSet |-> BestSet(sets, tag), tag |-> tag, begin |-> begin, end |-> end]

\* A MergedPeekCursor over the log routers of set t of generation gen.
MergedPeekCursor(gen, t, tag, begin, end) ==
    [type |-> "MergedPeekCursor", gen |-> gen, sets |-> { t },
     bestSet |-> 0, tag |-> tag, begin |-> begin, end |-> end]

\* A ServerPeekCursor on a handle that holds no interface.
EmptyCursor(tag, begin) ==
    [type |-> "ServerPeekCursor", cursors |-> << >>, epochEnds |-> << >>,
     tag |-> tag, begin |-> begin]

MultiCursor(cursors, epochEnds, tag, begin) ==
    [type |-> "MultiCursor", cursors |-> cursors, epochEnds |-> epochEnds,
     tag |-> tag, begin |-> begin]

\* An old generation's cursor that ends where its generation ended.
OldCursorEndAtEpochEnd(old, lastBegin, end) == Min(old.epochEnd, end)

\* std::min(lastBegin, end): where the cursor of an old generation ends.
OldCursorEnd(old, lastBegin, end) == Min(lastBegin, end)

\* The while loop of peekAll over oldLogData[i], i = 1.. (newest first).
RECURSIVE PeekAllOld(_, _, _, _, _, _, _, _)
PeekAllOld(i, begin, end, tag, throwIfDead, lastBegin, cursors, epochEnds) ==
    IF ~ (begin < lastBegin) THEN MultiCursor(cursors, epochEnds, tag, begin)
    ELSE IF i > Len(peekOldLogData)
    THEN IF tag = TxsTag THEN MultiCursor(cursors, epochEnds, tag, begin)
         ELSE IF throwIfDead
         THEN [type |-> "worker_removed", cursors |-> << >>, epochEnds |-> << >>,
               tag |-> tag, begin |-> begin]
         ELSE EmptyCursor(tag, begin)
    ELSE LET old == peekOldLogData[i]
             thisBegin == MaxStart(old.tLogs, LocalSets(old.tLogs), begin)
             cursorEnd == OldCursorEnd(old, lastBegin, end)
         IN  IF thisBegin < lastBegin
             THEN IF thisBegin < end
                  THEN PeekAllOld(i + 1, begin, end, tag, throwIfDead, thisBegin,
                           Append(cursors,
                                  SetPeekCursor(i, old.tLogs, tag, thisBegin, cursorEnd)),
                           Append(epochEnds, cursorEnd))
                  ELSE PeekAllOld(i + 1, begin, end, tag, throwIfDead, thisBegin,
                                  cursors, epochEnds)
             ELSE PeekAllOld(i + 1, begin, end, tag, throwIfDead, lastBegin,
                             cursors, epochEnds)

\* peekAll, had it added the cursor of the current epoch whatever the end.
PeekAllAlwaysCurrent(begin, end, tag, throwIfDead) ==
    LET lastBegin == MaxStart(peekTLogs, LocalSets(peekTLogs), 0)
    IN  IF begin >= lastBegin
        THEN [type |-> "SetPeekCursor",
              cursors |-> << SetPeekCursor(0, peekTLogs, tag, begin, end) >>,
              epochEnds |-> << >>, tag |-> tag, begin |-> begin]
        ELSE PeekAllOld(1, begin, end, tag, throwIfDead, lastBegin,
                        << SetPeekCursor(0, peekTLogs, tag, lastBegin, end) >>,
                        << >>)

\* peekAll(dbgid, begin, end, tag, parallelGetMore, throwIfDead)
PeekAll(begin, end, tag, throwIfDead) ==
    LET lastBegin == MaxStart(peekTLogs, LocalSets(peekTLogs), 0)
    IN  IF begin >= lastBegin
        THEN [type |-> "SetPeekCursor",
              cursors |-> << SetPeekCursor(0, peekTLogs, tag, begin, end) >>,
              epochEnds |-> << >>, tag |-> tag, begin |-> begin]
        ELSE PeekAllOld(1, begin, end, tag, throwIfDead, lastBegin,
                        IF lastBegin < end
                        THEN << SetPeekCursor(0, peekTLogs, tag, lastBegin, end) >>
                        ELSE << >>,
                        << >>)

\* The positions of the local sets, and of the sets with log routers.
IsLocalSets(sets) == { t \in DOMAIN sets : sets[t].isLocal }
RouterSets(sets) == { t \in DOMAIN sets : sets[t].logRouters > 0 }

\* peekRemote, had it returned the cursors collected when an old generation
\* has no set with log routers.
PeekRemoteNoOldBestSetKeeps(tag, begin, cursors, epochEnds) ==
    MultiCursor(cursors, epochEnds, tag, begin)

\* What peekRemote returns when an old generation has no set with log
\* routers.
PeekRemoteNoOldBestSet(tag, begin, cursors, epochEnds) == EmptyCursor(tag, begin)

\* The while loop of peekRemote over oldLogData[i].
RECURSIVE PeekRemoteOld(_, _, _, _, _, _)
PeekRemoteOld(i, begin, tag, lastBegin, cursors, epochEnds) ==
    IF ~ (begin < lastBegin) THEN MultiCursor(cursors, epochEnds, tag, begin)
    ELSE IF i > Len(peekOldLogData) THEN EmptyCursor(tag, begin)
    ELSE LET old == peekOldLogData[i]
             thisBegin == MaxStart(old.tLogs, IsLocalSets(old.tLogs), begin)
             bestOldSet == SetMax(RouterSets(old.tLogs))
         IN  IF bestOldSet = 0
             THEN PeekRemoteNoOldBestSet(tag, begin, cursors, epochEnds)
             ELSE IF thisBegin < lastBegin
             THEN PeekRemoteOld(i + 1, begin, tag, thisBegin,
                      Append(cursors,
                             MergedPeekCursor(i, bestOldSet, tag, thisBegin, lastBegin)),
                      Append(epochEnds, lastBegin))
             ELSE PeekRemoteOld(i + 1, begin, tag, lastBegin, cursors, epochEnds)

\* peekRemote(dbgid, begin, tag, parallelGetMore)
PeekRemote(begin, tag) ==
    LET lastBegin == MaxStart(peekTLogs, IsLocalSets(peekTLogs), 0)
        bestSet == SetMax(RouterSets(peekTLogs))
    IN  IF bestSet = 0 THEN EmptyCursor(tag, begin)
        ELSE IF begin >= lastBegin
        THEN [type |-> "MergedPeekCursor",
              cursors |-> << MergedPeekCursor(0, bestSet, tag, begin, GetPeekEnd) >>,
              epochEnds |-> << >>, tag |-> tag, begin |-> begin]
        ELSE PeekRemoteOld(1, begin, tag, lastBegin,
                           << MergedPeekCursor(0, bestSet, tag, lastBegin, GetPeekEnd) >>,
                           << >>)

\* peek, had it called peekAll with throwIfDead set.
PeekCursorThrowIfDead(begin, tag) ==
    IF Len(peekTLogs) = 0 THEN EmptyCursor(tag, begin)
    ELSE IF tag.locality = "remoteLog" THEN PeekRemote(begin, tag)
    ELSE PeekAll(begin, GetPeekEnd, tag, TRUE)

\* peek(dbgid, begin, tag, parallelGetMore)
PeekCursor(begin, tag) ==
    IF Len(peekTLogs) = 0 THEN EmptyCursor(tag, begin)
    ELSE IF tag.locality = "remoteLog" THEN PeekRemote(begin, tag)
    ELSE PeekAll(begin, GetPeekEnd, tag, FALSE)

\* The sets of generation gen (0: the current one).
GenerationSets(gen) == IF gen = 0 THEN peekTLogs ELSE peekOldLogData[gen].tLogs

\* The versions in [from, to) whose messages a cursor on one generation
\* yields, in ascending order: those pushed with the cursor's tag that a
\* set (or the routers of the set) of the cursor holds, a set holding the
\* versions from its startVersion on.
RECURSIVE CursorYields(_, _, _)
CursorYields(c, from, to) ==
    IF from >= to \/ from > Len(peekPushed) THEN << >>
    ELSE (IF /\ from >= 1
             /\ c.tag \in peekPushed[from]
             /\ \E t \in c.sets : GenerationSets(c.gen)[t].startVersion <= from
          THEN << from >> ELSE << >>) \o CursorYields(c, from + 1, to)

\* A MultiCursor yields what its cursors yield, the last cursor first.
RECURSIVE MultiCursorYields(_, _)
MultiCursorYields(cursors, n) ==
    IF n = 0 THEN << >>
    ELSE CursorYields(cursors[n], cursors[n].begin, cursors[n].end)
            \o MultiCursorYields(cursors, n - 1)

\* The stream of the cursor the last peek returned.
PeekStream == MultiCursorYields(peekCursor.cursors, Len(peekCursor.cursors))

NoCursor == [type |-> "none", cursors |-> << >>, epochEnds |-> << >>,
             tag |-> PrimaryTag, begin |-> 0]

\* A push of the next version succeeds on the running LogSystem.
PeekPush(tags) ==
    /\ Len(peekTLogs) > 0
    /\ ~ peekEpochEnd.present
    /\ Len(peekPushed) < MaxPeekVersion
    /\ peekPushed' = Append(peekPushed, tags)
    /\ peekCursor' = NoCursor
    /\ peekLocalCursor' = NoCursor
    /\ peekSingle' = << >>
    /\ UNCHANGED << peekTLogs, peekOldLogData, peekEpochEnd >>
    /\ UNCHANGED notPeek

\* epochEnd publishes the generation as stopped, ending at the last version,
\* with the old generations of the core state: none when the core state was
\* written after the recovery completed.
PeekEpochEnd(keepOld) ==
    /\ Len(peekTLogs) > 0
    /\ ~ peekEpochEnd.present
    /\ peekEpochEnd' = SomeVersion(Len(peekPushed))
    /\ peekOldLogData' = IF keepOld THEN peekOldLogData ELSE << >>
    /\ peekCursor' = NoCursor
    /\ peekLocalCursor' = NoCursor
    /\ peekSingle' = << >>
    /\ UNCHANGED << peekTLogs, peekPushed >>
    /\ UNCHANGED notPeek

\* newEpoch on the stopped LogSystem: the stopped generation becomes
\* oldLogData[0], ending at knownCommittedVersion + 1, before the older ones.
\* The configuration keeps its remote region from one epoch to the next.
PeekNewEpoch(kcv, primaryStart, remote) ==
    /\ peekEpochEnd.present
    /\ kcv <= peekEpochEnd.value
    /\ kcv + MaxKnownCommittedLag >= peekEpochEnd.value
    /\ kcv + 1 >= MaxStart(peekTLogs, DOMAIN peekTLogs, 1)
    /\ primaryStart \in { kcv + 1, kcv } \ { 0 }
    /\ Len(peekTLogs) > 0 => remote = (Len(peekTLogs) = 2)
    /\ LET olds == IF Len(peekTLogs) > 0
                   THEN << [tLogs |-> peekTLogs, epochEnd |-> kcv + 1] >>
                            \o peekOldLogData
                   ELSE peekOldLogData
       IN  /\ Len(olds) <= MaxOldGenerations
           /\ peekOldLogData' = olds
    /\ peekTLogs' = << PeekSet(TRUE, 2, 0, primaryStart, TRUE,
                                IF remote THEN "primary" ELSE "special") >>
                       \o (IF remote
                           THEN << PeekSet(FALSE, 1, 1, kcv + 1, TRUE, "remote") >>
                           ELSE << >>)
    /\ peekEpochEnd' = NoVersion
    /\ peekCursor' = NoCursor
    /\ peekLocalCursor' = NoCursor
    /\ peekSingle' = << >>
    /\ UNCHANGED peekPushed
    /\ UNCHANGED notPeek

\* The first set of sets that peekLocal takes for tag; 0 when there is none.
PeekLocalBestSet(sets, tag) ==
    LET matches == { t \in DOMAIN sets :
                       /\ sets[t].logServers > 0
                       /\ sets[t].hasBestPolicy
                       /\ \/ sets[t].locality = tag.locality
                          \/ tag.locality = "special"
                          \/ sets[t].locality \in { "special", "upgraded" }
                          \/ sets[t].isLocal /\ tag.locality = "logRouter" }
    IN  IF matches = {} THEN 0 ELSE SetMin(matches)

\* foundSpecial after the search of PeekLocalBestSet in sets.
PeekLocalFoundSpecial(sets, tag) ==
    /\ PeekLocalBestSet(sets, tag) # 0
    /\ sets[PeekLocalBestSet(sets, tag)].locality = "special"

\* worker_removed, thrown to the caller of a peek.
WorkerRemoved(tag, begin) ==
    [type |-> "worker_removed", cursors |-> << >>, epochEnds |-> << >>,
     tag |-> tag, begin |-> begin]

\* The while loop of peekLocal over oldLogData[i], i = 1.. (newest first).
RECURSIVE PeekLocalOld(_, _, _, _, _, _, _, _)
PeekLocalOld(i, begin, end, tag, foundSpecial, lastBegin, cursors, epochEnds) ==
    IF ~ (begin < lastBegin) THEN MultiCursor(cursors, epochEnds, tag, begin)
    ELSE IF i > Len(peekOldLogData) THEN WorkerRemoved(tag, begin)
    ELSE LET old == peekOldLogData[i].tLogs
             bestOldSet == PeekLocalBestSet(old, tag)
             special == foundSpecial \/ PeekLocalFoundSpecial(old, tag)
             cursorEnd == Min(lastBegin, end)
             all == PeekAll(begin, cursorEnd, tag, TRUE)
             thisBegin == Max(old[bestOldSet].startVersion, begin)
         IN  IF special
             THEN IF all.type = "worker_removed" THEN all
                  ELSE MultiCursor(Append(cursors, all), Append(epochEnds, cursorEnd),
                                   tag, begin)
             ELSE IF bestOldSet = 0
             THEN PeekLocalOld(i + 1, begin, end, tag, special, lastBegin,
                               cursors, epochEnds)
             ELSE IF thisBegin < lastBegin
             THEN IF thisBegin < end
                  THEN PeekLocalOld(i + 1, begin, end, tag, special, thisBegin,
                           Append(cursors,
                                  MergedPeekCursor(i, bestOldSet, tag, thisBegin,
                                                   cursorEnd)),
                           Append(epochEnds, cursorEnd))
                  ELSE PeekLocalOld(i + 1, begin, end, tag, special, thisBegin,
                                    cursors, epochEnds)
             ELSE PeekLocalOld(i + 1, begin, end, tag, special, lastBegin,
                               cursors, epochEnds)

\* peekLocal(dbgid, tag, begin, end)
PeekLocalCursor(tag, begin, end) ==
    LET bestSet == PeekLocalBestSet(peekTLogs, tag)
        start == peekTLogs[bestSet].startVersion
        server(from) == [type |-> "ServerPeekCursor", gen |-> 0, sets |-> { bestSet },
                         bestSet |-> bestSet, tag |-> tag, begin |-> from, end |-> end]
    IN  IF bestSet = 0 THEN EmptyCursor(tag, begin)
        ELSE IF begin >= start
        THEN [type |-> "ServerPeekCursor", cursors |-> << server(begin) >>,
              epochEnds |-> << >>, tag |-> tag, begin |-> begin]
        ELSE PeekLocalOld(1, begin, end, tag, PeekLocalFoundSpecial(peekTLogs, tag),
                          start, IF start < end THEN << server(start) >> ELSE << >>,
                          << >>)

\* peekSingle(dbgid, begin, tag, history) with an empty history: one peekLocal
\* up to getPeekEnd().
PeekLocal(begin, tag) ==
    /\ peekCursor = NoCursor /\ peekLocalCursor = NoCursor
    /\ peekLocalCursor' = PeekLocalCursor(tag, begin, GetPeekEnd)
    /\ peekSingle' = << >>
    /\ peekLocalCursor' # peekLocalCursor
    /\ peekCursor' = NoCursor
    /\ UNCHANGED << peekTLogs, peekOldLogData, peekEpochEnd, peekPushed >>
    /\ UNCHANGED notPeek

\* peek(dbgid, begin, tag, parallelGetMore). A peek leaves the LogSystem as it
\* is, so a peek after a peek returns what it returns after the operation
\* before them: the model takes it then.
Peek(begin, tag) ==
    /\ peekCursor = NoCursor /\ peekLocalCursor = NoCursor
    /\ peekCursor' = PeekCursor(begin, tag)
    /\ peekCursor' # peekCursor
    /\ peekLocalCursor' = NoCursor
    /\ peekSingle' = << >>
    /\ UNCHANGED << peekTLogs, peekOldLogData, peekEpochEnd, peekPushed >>
    /\ UNCHANGED notPeek

\* A brand new database: epochEnd published a stopped LogSystem without
\* sets, ending at version 0.
PeekInit ==
    /\ Idle({ "peek" })
    /\ peekTLogs = << >>
    /\ peekOldLogData = << >>
    /\ peekEpochEnd = SomeVersion(0)
    /\ peekPushed = << >>
    /\ peekCursor = NoCursor
    /\ peekLocalCursor = NoCursor
    /\ peekSingle = << >>

PeekNext ==
    \/ \E tags \in PushTags : PeekPush(tags)
    \/ \E keepOld \in BOOLEAN : PeekEpochEnd(keepOld)
    \/ \E kcv \in 0 .. MaxPeekVersion, primaryStart \in 1 .. MaxPeekVersion + 1 :
          \E remote \in BOOLEAN : PeekNewEpoch(kcv, primaryStart, remote)
    \/ \E begin \in 0 .. MaxPeekVersion + 1, tag \in PeekTags : Peek(begin, tag)
    \/ \E begin \in 0 .. MaxPeekVersion + 1, tag \in PeekTags : PeekLocal(begin, tag)

PeekSpec == PeekInit /\ [][PeekNext]_vars

\* The versions from begin below the peek end that were pushed with a
\* message of the tag, in ascending order.
RECURSIVE PushedWith(_, _)
PushedWith(tag, from) ==
    IF from > Len(peekPushed) \/ from >= GetPeekEnd THEN << >>
    ELSE (IF from >= 1 /\ tag \in peekPushed[from] THEN << from >> ELSE << >>)
            \o PushedWith(tag, from + 1)

\* The generations known reach down to begin: the local sets with servers
\* of the current or of an old generation all start at or below begin.
ReachesDownTo(begin) ==
    \/ MaxStart(peekTLogs, LocalSets(peekTLogs), 0) <= begin
    \/ \E i \in DOMAIN peekOldLogData :
          MaxStart(peekOldLogData[i].tLogs, LocalSets(peekOldLogData[i].tLogs), 0) <= begin

\* C8: when the LogSystem has sets, the tag is not of locality remoteLog
\* and the known generations reach down to begin, the stream of
\* peek(begin, tag) is the messages of the tag pushed at the versions in
\* [begin, peek end), in ascending order, each once.
PeekCoverage ==
    ( /\ peekCursor.type # "none"
      /\ Len(peekTLogs) > 0
      /\ peekCursor.tag.locality # "remoteLog"
      /\ ReachesDownTo(peekCursor.begin) )
    => PeekStream = PushedWith(peekCursor.tag, peekCursor.begin)

\* C8 witness: a stream with messages of two generations, from a
\* MultiCursor.
PeekCoverageWitness ==
    /\ peekCursor.type = "MultiCursor"
    /\ peekCursor.tag.locality # "remoteLog"
    /\ Len(peekCursor.cursors) >= 2
    /\ ReachesDownTo(peekCursor.begin)
    /\ \A n \in DOMAIN peekCursor.cursors :
          CursorYields(peekCursor.cursors[n], peekCursor.cursors[n].begin,
                       peekCursor.cursors[n].end) # << >>

\* C8 as stated: the stream of every peek(begin, tag) is the messages of the
\* tag pushed at the versions in [begin, peek end), ascending, each once.
PeekCoverageAlways ==
    peekCursor.type # "none" => PeekStream = PushedWith(peekCursor.tag, peekCursor.begin)

\* The call that returned c was a peek of a tag not of locality remoteLog,
\* on a LogSystem with sets, whose begin lies below the start version of
\* every known generation, current and old.
PeekDead(c) ==
    /\ c.type # "none"
    /\ Len(peekTLogs) > 0
    /\ c.tag.locality # "remoteLog"
    /\ ~ ReachesDownTo(c.begin)

\* Some set of a known generation has locality special.
PeekKnowsSpecial ==
    \/ \E t \in DOMAIN peekTLogs : peekTLogs[t].locality = "special"
    \/ \E i \in DOMAIN peekOldLogData : \E t \in DOMAIN peekOldLogData[i].tLogs :
          peekOldLogData[i].tLogs[t].locality = "special"

PeekAllCalls ==
    (IF peekCursor.type # "none" /\ Len(peekTLogs) > 0
          /\ peekCursor.tag.locality # "remoteLog"
     THEN { << peekCursor, GetPeekEnd >> } ELSE {})
    \cup
    (IF /\ peekLocalCursor.type = "MultiCursor"
        /\ Len(peekLocalCursor.cursors) > 0
        /\ "cursors" \in DOMAIN peekLocalCursor.cursors[Len(peekLocalCursor.cursors)]
     THEN { << peekLocalCursor.cursors[Len(peekLocalCursor.cursors)],
               peekLocalCursor.epochEnds[Len(peekLocalCursor.epochEnds)] >> }
     ELSE {})

\* lastBegin of peekAll: the largest startVersion of the current local sets.
PeekAllLastBegin == MaxStart(peekTLogs, LocalSets(peekTLogs), 0)

\* The start of old generation i: the largest startVersion of its local sets.
PeekAllOldStart(i) ==
    MaxStart(peekOldLogData[i].tLogs, LocalSets(peekOldLogData[i].tLogs), 0)

\* The call ce = << cursor, end >> of peekAll began below the current local
\* sets, and an old generation starts at or below its begin.
PeekAllStitches(ce) ==
    /\ ce[1].type = "MultiCursor"
    /\ ce[1].begin < PeekAllLastBegin
    /\ \E i \in DOMAIN peekOldLogData : PeekAllOldStart(i) <= ce[1].begin

\* The version ranges of the cursors cs, the newest first, are non-empty and
\* follow each other from end down to begin.
PeekAllChain(cs, begin, end) ==
    /\ Len(cs) >= 1
    /\ cs[1].end = end
    /\ cs[Len(cs)].begin = begin
    /\ \A n \in DOMAIN cs : cs[n].begin < cs[n].end
    /\ \A n \in 1 .. Len(cs) - 1 : cs[n + 1].end = cs[n].begin

\* Each cursor of an old generation starts at max(generation start, begin),
\* each generation has at most one cursor, the newer generation first, and
\* the boundaries are the ends of the cursors of the old generations.
PeekAllOldCursors(c) ==
    LET olds == SelectSeq(c.cursors, LAMBDA x : x.gen # 0)
    IN  /\ \A n \in DOMAIN olds :
              /\ olds[n].type = "SetPeekCursor"
              /\ olds[n].begin = Max(PeekAllOldStart(olds[n].gen), c.begin)
        /\ \A n \in 1 .. Len(olds) - 1 : olds[n].gen < olds[n + 1].gen
        /\ \A n \in 2 .. Len(c.cursors) : c.cursors[n].gen # 0
        /\ c.epochEnds = [n \in DOMAIN olds |-> olds[n].end]

\* C21: when begin is below the largest startVersion of the current local
\* sets and an old generation reaches down to begin, the cursors of peekAll
\* have non-empty, disjoint, contiguous version ranges whose union is
\* [begin, end): a cursor [lastBegin, end) of the current epoch when
\* lastBegin < end and none otherwise, and for each contributing old
\* generation one cursor [max(generation start, begin), min(start of the
\* next newer segment, end)), with one boundary, its end, for each cursor of
\* an old generation.
PeekAllRanges ==
    \A ce \in PeekAllCalls :
       PeekAllStitches(ce) =>
          /\ PeekAllChain(ce[1].cursors, ce[1].begin, ce[2])
          /\ PeekAllOldCursors(ce[1])
          /\ IF PeekAllLastBegin < ce[2]
             THEN /\ ce[1].cursors[1].gen = 0
                  /\ ce[1].cursors[1].begin = PeekAllLastBegin
             ELSE ce[1].cursors[1].gen # 0

\* C21 witness: a peek is served by the cursor [lastBegin, end) of the
\* current epoch and by the cursor of an old generation below it, with one
\* boundary.
PeekAllRangesWitness ==
    /\ PeekAllStitches(<< peekCursor, GetPeekEnd >>)
    /\ << peekCursor, GetPeekEnd >> \in PeekAllCalls
    /\ Len(peekCursor.cursors) = 2
    /\ peekCursor.cursors[1].gen = 0
    /\ peekCursor.cursors[2].gen # 0
    /\ peekCursor.cursors[2].end = PeekAllLastBegin
    /\ peekCursor.epochEnds = << PeekAllLastBegin >>

\* C21 as stated: the cursors always include the cursor [lastBegin, end) of
\* the current epoch.
PeekAllRangesWithCurrent ==
    \A ce \in PeekAllCalls :
       PeekAllStitches(ce) =>
          /\ PeekAllChain(ce[1].cursors, ce[1].begin, ce[2])
          /\ PeekAllOldCursors(ce[1])
          /\ ce[1].cursors[1].gen = 0
          /\ ce[1].cursors[1].begin = PeekAllLastBegin
----------------------------------------------------------------------------
(* getLogSystemConfig / fromLogSystemConfig                                *)

\* The start versions of the sets of a LogSystem are in 1..MaxConfigVersion.
MaxConfigVersion == 2

\* The locality data of a server: its zone and its machine.
ConfigLocality(zone, machine) == { << "zoneid", zone >>, << "machineid", machine >> }

\* A policy across R zones; it uses the key zoneid.
ConfigPolicy(R) == [across |-> R, keys |-> { "zoneid" }]

\* filterLocalityDataForPolicy(policy, &localities): every locality keeps
\* the keys the policy uses.
FilterLocalityDataForPolicy(policy, localities) ==
    [ i \in DOMAIN localities |-> { kv \in localities[i] : kv[1] \in policy.keys } ]

\* A LogSet with all the fields the config carries.
ConfigLogSet(servers, routers, R, A, localities, local, loc, start) ==
    [ logServers            |-> servers,
      logRouters            |-> routers,
      tLogWriteAntiQuorum   |-> A,
      tLogReplicationFactor |-> R,
      tLogPolicy            |-> ConfigPolicy(R),
      tLogLocalities        |-> localities,
      isLocal               |-> local,
      hasBestPolicy         |-> TRUE,
      locality              |-> loc,
      startVersion          |-> start ]

\* The TLogSet getLogSystemConfig writes for a LogSet.
TLogSetOf(logSet) ==
    [ tLogs                 |-> logSet.logServers,
      logRouters            |-> logSet.logRouters,
      tLogWriteAntiQuorum   |-> logSet.tLogWriteAntiQuorum,
      tLogReplicationFactor |-> logSet.tLogReplicationFactor,
      tLogPolicy            |-> logSet.tLogPolicy,
      tLogLocalities        |-> logSet.tLogLocalities,
      isLocal               |-> logSet.isLocal,
      hasBestPolicy         |-> logSet.hasBestPolicy,
      locality              |-> logSet.locality,
      startVersion          |-> logSet.startVersion ]

\* A LogSet read from a TLogSet without its startVersion.
LogSetOfNoStartVersion(tLogSet) ==
    [ logServers            |-> tLogSet.tLogs,
      logRouters            |-> tLogSet.logRouters,
      tLogWriteAntiQuorum   |-> tLogSet.tLogWriteAntiQuorum,
      tLogReplicationFactor |-> tLogSet.tLogReplicationFactor,
      tLogPolicy            |-> tLogSet.tLogPolicy,
      tLogLocalities        |-> tLogSet.tLogLocalities,
      isLocal               |-> tLogSet.isLocal,
      hasBestPolicy         |-> tLogSet.hasBestPolicy,
      locality              |-> tLogSet.locality,
      startVersion          |-> 0 ]

\* The LogSet fromLogSystemConfig reads from a TLogSet.
LogSetOf(tLogSet) ==
    [ logServers            |-> tLogSet.tLogs,
      logRouters            |-> tLogSet.logRouters,
      tLogWriteAntiQuorum   |-> tLogSet.tLogWriteAntiQuorum,
      tLogReplicationFactor |-> tLogSet.tLogReplicationFactor,
      tLogPolicy            |-> tLogSet.tLogPolicy,
      tLogLocalities        |-> tLogSet.tLogLocalities,
      isLocal               |-> tLogSet.isLocal,
      hasBestPolicy         |-> tLogSet.hasBestPolicy,
      locality              |-> tLogSet.locality,
      startVersion          |-> tLogSet.startVersion ]

\* A getLogSystemConfig that lists every set and every old generation.
GetLogSystemConfigShowsAll(L) ==
    [ logSystemType   |-> L.logSystemType,
      expectedLogSets |-> L.expectedLogSets,
      logRouterTags   |-> L.logRouterTags,
      recruitmentID   |-> L.recruitmentID,
      stopped         |-> L.stopped,
      tLogs           |-> [ i \in DOMAIN L.tLogs |-> TLogSetOf(L.tLogs[i]) ],
      oldTLogs        |->
          [ i \in DOMAIN L.oldLogData |->
              [ tLogs |-> [ j \in DOMAIN L.oldLogData[i].tLogs |->
                              TLogSetOf(L.oldLogData[i].tLogs[j]) ],
                logRouterTags |-> L.oldLogData[i].logRouterTags,
                epochEnd |-> L.oldLogData[i].epochEnd ] ] ]

\* getLogSystemConfig()
GetLogSystemConfig(L) ==
    [ logSystemType   |-> L.logSystemType,
      expectedLogSets |-> L.expectedLogSets,
      logRouterTags   |-> L.logRouterTags,
      recruitmentID   |-> L.recruitmentID,
      stopped         |-> L.stopped,
      tLogs           |->
          LET shown == SelectSeq(L.tLogs,
                           LAMBDA t : t.isLocal \/ L.remoteLogsWrittenToCoreState)
          IN  [ i \in DOMAIN shown |-> TLogSetOf(shown[i]) ],
      oldTLogs        |->
          IF ~ L.recoveryCompleteWrittenToCoreState
          THEN [ i \in DOMAIN L.oldLogData |->
                   [ tLogs |-> [ j \in DOMAIN L.oldLogData[i].tLogs |->
                                   TLogSetOf(L.oldLogData[i].tLogs[j]) ],
                     logRouterTags |-> L.oldLogData[i].logRouterTags,
                     epochEnd |-> L.oldLogData[i].epochEnd ] ]
          ELSE << >> ]

\* fromLogSystemConfig(dbgid, locality, lsConf, excludeRemote)
FromLogSystemConfig(lsConf, excludeRemote) ==
    [ logSystemType   |-> lsConf.logSystemType,
      expectedLogSets |-> lsConf.expectedLogSets,
      logRouterTags   |-> lsConf.logRouterTags,
      recruitmentID   |-> lsConf.recruitmentID,
      stopped         |-> lsConf.stopped,
      tLogs           |->
          LET read == SelectSeq(lsConf.tLogs, LAMBDA t : ~ excludeRemote \/ t.isLocal)
          IN  [ i \in DOMAIN read |->
                  [ LogSetOf(read[i]) EXCEPT !.tLogLocalities =
                      FilterLocalityDataForPolicy(read[i].tLogPolicy, @) ] ],
      oldLogData      |->
          [ i \in DOMAIN lsConf.oldTLogs |->
              [ tLogs |-> [ j \in DOMAIN lsConf.oldTLogs[i].tLogs |->
                              LogSetOf(lsConf.oldTLogs[i].tLogs[j]) ],
                logRouterTags |-> lsConf.oldTLogs[i].logRouterTags,
                epochEnd |-> lsConf.oldTLogs[i].epochEnd ] ],
      recoveryCompleteWrittenToCoreState |-> FALSE,
      remoteLogsWrittenToCoreState       |-> FALSE,
      hasRemoteServers                   |-> FALSE,
      recoveryComplete                   |-> FALSE,
      remoteRecoveryComplete             |-> FALSE ]

\* A toCoreState that looks at recoveryComplete only.
ToCoreStateLocalRecoveryOnly(L) ==
    [ tLogs       |-> SelectSeq(L.tLogs, LAMBDA t : Len(t.logServers) > 0),
      oldTLogData |-> IF ~ L.recoveryComplete THEN L.oldLogData ELSE << >> ]

\* toCoreState(newState): the sets that have servers, and the old
\* generations unless recoveryComplete and remoteRecoveryComplete are ready.
ToCoreState(L) ==
    [ tLogs       |-> SelectSeq(L.tLogs, LAMBDA t : Len(t.logServers) > 0),
      oldTLogData |-> IF ~ L.recoveryComplete \/ ~ L.remoteRecoveryComplete
                      THEN L.oldLogData ELSE << >> ]

\* The sets of the model: a primary set, the remote set newRemoteEpoch adds
\* (with a log router), and the set of an old generation, whose localities
\* epochEnd read from the core state.
ConfigPrimarySet(start) ==
    ConfigLogSet(<<1, 2>>, << >>, 2, 0,
                 << { << "zoneid", "z1" >> }, { << "zoneid", "z2" >> } >>,
                 TRUE, "primary", start)
ConfigRemoteSet(start) ==
    ConfigLogSet(<<3>>, <<4>>, 1, 0, << { << "zoneid", "z3" >> } >>,
                 FALSE, "remote", start)
ConfigCoreSet(local, server, loc, start) ==
    ConfigLogSet(<< server >>, << >>, 1, 0, << ConfigLocality("z5", "m5") >>,
                 local, loc, start)
ConfigOldLogData ==
    { << >>,
      << [ tLogs |-> << ConfigCoreSet(TRUE, 5, "primary", 1) >>,
           logRouterTags |-> 0, epochEnd |-> 1 ] >> }

\* The LogSystem newEpoch returns.
ConfigNewEpochSystem(start, old, remote) ==
    [ logSystemType   |-> 2,
      expectedLogSets |-> IF remote THEN 2 ELSE 1,
      logRouterTags   |-> IF remote THEN 2 ELSE 0,
      recruitmentID   |-> 7,
      stopped         |-> FALSE,
      tLogs           |-> << ConfigPrimarySet(start) >>,
      oldLogData      |-> old,
      recoveryCompleteWrittenToCoreState |-> FALSE,
      remoteLogsWrittenToCoreState       |-> FALSE,
      hasRemoteServers                   |-> remote,
      recoveryComplete                   |-> FALSE,
      remoteRecoveryComplete             |-> FALSE ]

\* The LogSystem epochEnd publishes.
ConfigEpochEndSystem(start, old, remote) ==
    [ logSystemType   |-> 2,
      expectedLogSets |-> 0,
      logRouterTags   |-> IF remote THEN 1 ELSE 0,
      recruitmentID   |-> 0,
      stopped         |-> TRUE,
      tLogs           |-> << ConfigCoreSet(TRUE, 1, "primary", start) >>
                             \o (IF remote
                                 THEN << ConfigCoreSet(FALSE, 3, "remote", start) >>
                                 ELSE << >>),
      oldLogData      |-> old,
      recoveryCompleteWrittenToCoreState |-> FALSE,
      remoteLogsWrittenToCoreState       |-> TRUE,
      hasRemoteServers                   |-> FALSE,
      recoveryComplete                   |-> FALSE,
      remoteRecoveryComplete             |-> FALSE ]

NoConfigCopy == [present |-> FALSE]

\* recoveryComplete becomes ready: the servers of the primary set finished
\* their recovery.  Without remote servers it is remoteRecoveryComplete too.
ConfigRecoveryComplete ==
    /\ ~ configSystem.stopped
    /\ ~ configSystem.recoveryComplete
    /\ configSystem' = [configSystem EXCEPT
                          !.recoveryComplete = TRUE,
                          !.remoteRecoveryComplete =
                              IF configSystem.hasRemoteServers THEN @ ELSE TRUE]
    /\ configCopy' = NoConfigCopy
    /\ UNCHANGED configCoreState
    /\ UNCHANGED notConfig

\* newRemoteEpoch adds the remote set.
ConfigNewRemoteEpoch ==
    /\ configSystem.hasRemoteServers
    /\ \A t \in DOMAIN configSystem.tLogs : configSystem.tLogs[t].isLocal
    /\ configSystem' = [configSystem EXCEPT !.tLogs =
          Append(@, ConfigRemoteSet(configSystem.tLogs[1].startVersion))]
    /\ configCopy' = NoConfigCopy
    /\ UNCHANGED configCoreState
    /\ UNCHANGED notConfig

\* remoteRecoveryComplete becomes ready: the servers of the remote set
\* finished their recovery.
ConfigRemoteRecoveryComplete ==
    /\ configSystem.hasRemoteServers
    /\ \E t \in DOMAIN configSystem.tLogs : ~ configSystem.tLogs[t].isLocal
    /\ ~ configSystem.remoteRecoveryComplete
    /\ configSystem' = [configSystem EXCEPT !.remoteRecoveryComplete = TRUE]
    /\ configCopy' = NoConfigCopy
    /\ UNCHANGED configCoreState
    /\ UNCHANGED notConfig

\* toCoreState(newState) followed by coreStateWritten(newState).
CoreStateWritten ==
    /\ ~ configSystem.stopped
    /\ LET newState == ToCoreState(configSystem)
       IN  /\ configCoreState' = [present |-> TRUE, value |-> newState]
           /\ configSystem' = [configSystem EXCEPT
                 !.recoveryCompleteWrittenToCoreState =
                     IF Len(newState.oldTLogData) = 0 THEN TRUE ELSE @,
                 !.remoteLogsWrittenToCoreState =
                     IF \E t \in DOMAIN newState.tLogs : ~ newState.tLogs[t].isLocal
                     THEN TRUE ELSE @]
    /\ configSystem' # configSystem \/ configCoreState' # configCoreState
    /\ configCopy' = NoConfigCopy
    /\ UNCHANGED notConfig

\* L' = fromLogSystemConfig(getLogSystemConfig(L), excludeRemote)
ConfigRoundTrip(excludeRemote) ==
    /\ configCopy' = [present |-> TRUE,
                      value |-> FromLogSystemConfig(GetLogSystemConfig(configSystem),
                                                    excludeRemote)]
    /\ configCopy' # configCopy
    /\ UNCHANGED << configSystem, configCoreState >>
    /\ UNCHANGED notConfig

ConfigInit ==
    /\ Idle({ "config" })
    /\ \E start \in 1 .. MaxConfigVersion, old \in ConfigOldLogData, remote \in BOOLEAN :
          configSystem \in { ConfigNewEpochSystem(start, old, remote),
                             ConfigEpochEndSystem(start, old, remote) }
    /\ configCopy = NoConfigCopy
    /\ configCoreState = [present |-> FALSE]

ConfigNext ==
    \/ ConfigRecoveryComplete
    \/ ConfigNewRemoteEpoch
    \/ ConfigRemoteRecoveryComplete
    \/ CoreStateWritten
    \/ \E excludeRemote \in BOOLEAN : ConfigRoundTrip(excludeRemote)

ConfigSpec == ConfigInit /\ [][ConfigNext]_vars

\* L and L' agree on every attribute the public methods show.
ConfigEquivalent(L, M) ==
    /\ L.tLogs = M.tLogs
    /\ L.oldLogData = M.oldLogData
    /\ L.logRouterTags = M.logRouterTags
    /\ L.recruitmentID = M.recruitmentID
    /\ L.stopped = M.stopped
    /\ GetLogSystemConfig(L) = GetLogSystemConfig(M)

\* The config of L shows all of L: L has no non-local set, its old
\* generations are still written to the config, and the localities of its
\* sets hold what their policies use.
ConfigShowsAll(L) ==
    /\ \A t \in DOMAIN L.tLogs :
          /\ L.tLogs[t].isLocal
          /\ FilterLocalityDataForPolicy(L.tLogs[t].tLogPolicy, L.tLogs[t].tLogLocalities)
               = L.tLogs[t].tLogLocalities
    /\ ~ L.recoveryCompleteWrittenToCoreState \/ Len(L.oldLogData) = 0

\* C9: for a LogSystem L without non-local sets, whose old generations are
\* still written to the config and whose localities are filtered for the
\* policy, fromLogSystemConfig(getLogSystemConfig(L)) is equivalent to L.
ConfigRoundTripEquivalent ==
    (configCopy.present /\ ConfigShowsAll(configSystem))
        => ConfigEquivalent(configSystem, configCopy.value)

\* C9 witness: the round trip of a LogSystem that has an old generation and
\* whose primary servers finished their recovery.
ConfigRoundTripWitness ==
    /\ configCopy.present
    /\ ConfigShowsAll(configSystem)
    /\ Len(configSystem.oldLogData) > 0
    /\ configSystem.recoveryComplete

\* C9 as stated: the round trip is equivalent to L for every L.
ConfigRoundTripAlways ==
    configCopy.present => ConfigEquivalent(configSystem, configCopy.value)

\* C13: every toCoreState writes the old generations into oldTLogData
\* unless recoveryComplete and remoteRecoveryComplete are both ready, in
\* which case it writes none; so a written state without the old
\* generations of the LogSystem exists only once both have finished.
ToCoreStateKeepsOldUntilRecovered ==
    [][ configCoreState' # configCoreState =>
          /\ configCoreState'.value.oldTLogData =
                IF configSystem.recoveryComplete /\ configSystem.remoteRecoveryComplete
                THEN << >> ELSE configSystem.oldLogData
          /\ (Len(configCoreState'.value.oldTLogData) = 0
                 /\ Len(configSystem.oldLogData) > 0)
               => (configSystem'.recoveryComplete
                     /\ configSystem'.remoteRecoveryComplete)
      ]_vars

\* C13 witness: the state written last has no old generations, for a
\* LogSystem with remote servers that has an old generation.
ToCoreStateKeepsOldUntilRecoveredWitness ==
    /\ configCoreState.present
    /\ Len(configCoreState.value.oldTLogData) = 0
    /\ Len(configSystem.oldLogData) > 0
    /\ configSystem.hasRemoteServers

\* The published config lists a set that is not local / lists old
\* generations.
ConfigListsRemote ==
    \E t \in DOMAIN GetLogSystemConfig(configSystem).tLogs :
        ~ GetLogSystemConfig(configSystem).tLogs[t].isLocal

ConfigListsOld == Len(GetLogSystemConfig(configSystem).oldTLogs) > 0

ConfigHasRemote == \E t \in DOMAIN configSystem.tLogs : ~ configSystem.tLogs[t].isLocal

\* The core state acknowledged last holds a set that is not local / holds no
\* old generation.
ConfigWroteRemote ==
    /\ configCoreState.present
    /\ \E t \in DOMAIN configCoreState.value.tLogs : ~ configCoreState.value.tLogs[t].isLocal

ConfigWroteNoOld ==
    configCoreState.present /\ Len(configCoreState.value.oldTLogData) = 0

\* What a step does to the two flags: neither is cleared, and one is set
\* only by coreStateWritten(s), recoveryCompleteWrittenToCoreState when s has
\* no old generation and remoteLogsWrittenToCoreState when s holds a set
\* that is not local.
ConfigFlagsStep ==
    LET written == configCoreState' # configCoreState
        s == configCoreState'.value
    IN  /\ configSystem'.recoveryCompleteWrittenToCoreState =
              ( \/ configSystem.recoveryCompleteWrittenToCoreState
                \/ written /\ Len(s.oldTLogData) = 0 )
        /\ configSystem'.remoteLogsWrittenToCoreState =
              ( \/ configSystem.remoteLogsWrittenToCoreState
                \/ written /\ \E t \in DOMAIN s.tLogs : ~ s.tLogs[t].isLocal )

\* C32: coreStateWritten(s) sets recoveryCompleteWrittenToCoreState when s
\* has no old generation and remoteLogsWrittenToCoreState when s holds a set
\* that is not local, and neither flag is cleared; getLogSystemConfig lists
\* the sets that are not local exactly while remoteLogsWrittenToCoreState is
\* set and the old generations exactly while
\* recoveryCompleteWrittenToCoreState is not set; so the config of a system
\* built by newEpoch lists a remote set only after a core state holding it
\* was acknowledged, and lists the old generations until a core state
\* without them was acknowledged.
ConfigFollowsCoreState ==
    /\ [][ConfigFlagsStep]_vars
    /\ [](/\ ConfigListsRemote <=>
               (ConfigHasRemote /\ configSystem.remoteLogsWrittenToCoreState)
          /\ ConfigListsOld <=>
               ( /\ Len(configSystem.oldLogData) > 0
                 /\ ~ configSystem.recoveryCompleteWrittenToCoreState )
          /\ ~ configSystem.stopped =>
               /\ ConfigListsRemote <=> ConfigWroteRemote
               /\ ConfigListsOld <=>
                    (Len(configSystem.oldLogData) > 0 /\ ~ ConfigWroteNoOld))

\* C32 witness: a system built by newEpoch with an old generation and a
\* remote set, after a core state with the remote set and without the old
\* generation was acknowledged: its config lists the remote set and no old
\* generation.
ConfigFollowsCoreStateWitness ==
    /\ ~ configSystem.stopped
    /\ Len(configSystem.oldLogData) > 0
    /\ ConfigWroteRemote /\ ConfigWroteNoOld
    /\ ConfigListsRemote /\ ~ ConfigListsOld

----------------------------------------------------------------------------
(* confirmEpochLive                                                        *)

\* The LogSystems confirmEpochLive is called on: a local set of four
\* servers in two zones next to a local set without servers; a primary set
\* with an anti-quorum, a satellite set and a remote set.
ConfirmSystems ==
    { << LogSet(<<1, 2, 3, 4>>, <<"z1", "z1", "z2", "z2">>, 2, 0, TRUE, "primary"),
         LogSet(<< >>, << >>, 1, 0, TRUE, "satellite") >>,
      << LogSet(<<1, 2>>, <<"z1", "z2">>, 2, 1, TRUE, "primary"),
         LogSet(<<3>>, <<"z3">>, 1, 0, TRUE, "satellite"),
         LogSet(<<4>>, <<"z4">>, 1, 0, FALSE, "remote") >> }

ConfirmServers == { 1, 2, 3, 4 }

\* The sets confirmEpochLive starts a confirmEpochLive_internal for.
ConfirmedSets(sets) ==
    { t \in DOMAIN sets : sets[t].isLocal /\ Len(sets[t].logServers) > 0 }

\* alive, as the states of the futures of the servers of a set.
AliveOf(logSet, alive) == [ i \in DOMAIN logSet.logServers |-> alive[logSet.logServers[i]] ]

\* The positions whose request was acknowledged: responded.
RespondedOf(logSet, alive) ==
    { i \in DOMAIN logSet.logServers : alive[logSet.logServers[i]] = "ack" }

\* min(tLogReplicationFactor, numPresent - tLogWriteAntiQuorum)
ConfirmQuorumSize(logSet, present) ==
    Min(logSet.tLogReplicationFactor,
        Cardinality({ i \in DOMAIN logSet.logServers : present[logSet.logServers[i]] })
          - logSet.tLogWriteAntiQuorum)

\* A quorum that counts the responders instead of validating the policy.
QuorumObtainedByCount(logSet, alive) ==
    Cardinality(RespondedOf(logSet, alive)) >= logSet.tLogReplicationFactor

\* quorum_obtained = locked->validate(logSet->tLogPolicy)
QuorumObtained(logSet, alive) ==
    Validate(logSet.tLogPolicy,
             SelectIdx(logSet.tLogLocalities, RespondedOf(logSet, alive), 1))

\* One pass of the loop of confirmEpochLive_internal.
ConfirmLoop(logSet, alive) ==
    IF QuorumObtained(logSet, alive) THEN "ready"
    ELSE IF \E i \in DOMAIN logSet.logServers :
               alive[logSet.logServers[i]] = "tlog_stopped"
    THEN "never"
    ELSE "loop"

\* confirmEpochLive_internal(logSet, debugID) from where it stands, run until
\* it waits again.
ConfirmEpochLiveInternal(logSet, present, alive, pc) ==
    IF pc \in { "ready", "never", "error" } THEN pc
    ELSE IF pc = "loop" THEN ConfirmLoop(logSet, alive)
    ELSE LET q == Quorum(AliveOf(logSet, alive), ConfirmQuorumSize(logSet, present))
         IN  IF q = "error" THEN "error"
             ELSE IF q = "pending" THEN "quorum"
             ELSE ConfirmLoop(logSet, alive)

\* The tasks of all the sets after a change of alive, and the future
\* waitForAll(quorumResults).
ConfirmWakes(alive) ==
    /\ confirmInternal' =
          [ t \in DOMAIN confirmSets |->
              IF t \in ConfirmedSets(confirmSets)
              THEN ConfirmEpochLiveInternal(confirmSets[t], confirmPresent, alive,
                                            confirmInternal[t])
              ELSE "none" ]
    /\ confirmResult' =
          WaitForAll(SelectIdx(confirmInternal', ConfirmedSets(confirmSets), 1))

\* confirmEpochLive(debugID): a request to every server whose handle holds
\* an interface, Never() for the others.
ConfirmEpochLive ==
    /\ confirmResult = "idle"
    /\ confirmAlive' =
          [ s \in ConfirmServers |->
              IF \E t \in ConfirmedSets(confirmSets) : s \in SeqRange(confirmSets[t].logServers)
              THEN (IF confirmPresent[s] THEN "pending" ELSE "never")
              ELSE "none" ]
    /\ ConfirmWakes(confirmAlive')
    /\ UNCHANGED << confirmSets, confirmPresent >>
    /\ UNCHANGED notConfirm

\* A server acknowledges the confirmRunning request.
ConfirmRunningReply(s) ==
    /\ confirmAlive[s] = "pending"
    /\ confirmAlive' = [confirmAlive EXCEPT ![s] = "ack"]
    /\ ConfirmWakes(confirmAlive')
    /\ UNCHANGED << confirmSets, confirmPresent >>
    /\ UNCHANGED notConfirm

\* A stopped server answers the request with tlog_stopped.
ConfirmRunningStopped(s) ==
    /\ confirmAlive[s] = "pending"
    /\ confirmAlive' = [confirmAlive EXCEPT ![s] = "tlog_stopped"]
    /\ ConfirmWakes(confirmAlive')
    /\ UNCHANGED << confirmSets, confirmPresent >>
    /\ UNCHANGED notConfirm

\* The reply promise of a server breaks: brokenPromiseToNever.
ConfirmRunningBroken(s) ==
    /\ confirmAlive[s] = "pending"
    /\ confirmAlive' = [confirmAlive EXCEPT ![s] = "never"]
    /\ ConfirmWakes(confirmAlive')
    /\ UNCHANGED << confirmSets, confirmPresent >>
    /\ UNCHANGED notConfirm

\* The handles that hold an interface leave every set a quorum of at least
\* one to wait for.
ConfirmInit ==
    /\ Idle({ "confirm" })
    /\ confirmSets \in ConfirmSystems
    /\ confirmPresent \in [ ConfirmServers -> BOOLEAN ]
    /\ \A t \in ConfirmedSets(confirmSets) :
          ConfirmQuorumSize(confirmSets[t], confirmPresent) >= 1
    /\ confirmAlive = [ s \in ConfirmServers |-> "none" ]
    /\ confirmInternal = [ t \in DOMAIN confirmSets |-> "none" ]
    /\ confirmResult = "idle"

ConfirmNext ==
    \/ ConfirmEpochLive
    \/ \E s \in ConfirmServers : ConfirmRunningReply(s)
    \/ \E s \in ConfirmServers : ConfirmRunningStopped(s)
    \/ \E s \in ConfirmServers : ConfirmRunningBroken(s)

ConfirmSpec == ConfirmInit /\ [][ConfirmNext]_vars

\* In every local set with servers the acknowledging servers satisfy the
\* policy of the set.
ConfirmPolicySatisfied ==
    \A t \in ConfirmedSets(confirmSets) :
        Validate(confirmSets[t].tLogPolicy,
                 SelectIdx(confirmSets[t].tLogLocalities,
                           RespondedOf(confirmSets[t], confirmAlive), 1))

\* A server answered the request with tlog_stopped.
ConfirmSawStopped == \E s \in ConfirmServers : confirmAlive[s] = "tlog_stopped"

\* C10: confirmEpochLive succeeds only when, in every local set with
\* servers, the acknowledging servers satisfy the policy of the set; and
\* as long as no server answered tlog_stopped, it has succeeded whenever
\* they do.
ConfirmEpochLiveOnlyWithPolicy ==
    /\ confirmResult = "success" => ConfirmPolicySatisfied
    /\ (confirmResult # "idle" /\ ConfirmPolicySatisfied /\ ~ ConfirmSawStopped)
          => confirmResult = "success"

\* C10 witness: confirmEpochLive succeeded on the acknowledgements of a
\* policy-satisfying part of a set, with a request still pending.
ConfirmEpochLiveWitness ==
    /\ confirmResult = "success"
    /\ ConfirmPolicySatisfied
    /\ \E s \in ConfirmServers : confirmAlive[s] = "pending"

\* C10 as stated: confirmEpochLive has succeeded exactly when, in every
\* local set with servers, the acknowledging servers satisfy the policy.
ConfirmEpochLiveExactlyWhen ==
    confirmResult # "idle" => (confirmResult = "success" <=> ConfirmPolicySatisfied)

----------------------------------------------------------------------------
(* onError                                                                 *)

\* The handles of the LogSystem onError is called on: log servers 1 and 2
\* and log router 3 of the current sets, log router 4 and log server 5 of an
\* old generation.
OnErrorHandles == { 1, 2, 3, 4, 5 }
OnErrorCurrentServers == { 1, 2 }
OnErrorCurrentRouters == { 3 }
OnErrorOldRouters == { 4 }

\* The handles the loop visits: without the routers.
OnErrorVisitedServersOnly == OnErrorCurrentServers

\* The handles the loop visits: logServers and logRouters of tLogs,
\* logRouters of oldLogData.
OnErrorVisited == OnErrorCurrentServers \cup OnErrorCurrentRouters \cup OnErrorOldRouters

\* failed: a waitFailureClient for every visited handle that is present.
OnErrorFailedVector(present) == { h \in OnErrorVisited : present[h] }

\* changes: onChange() of every visited handle that is absent, and
\* remoteRecovery when it is not ready or is an error.
OnErrorChangesVector(present, remoteRecovery) ==
    { << "onChange", h >> : h \in { g \in OnErrorVisited : ~ present[g] } }
      \cup (IF remoteRecovery \in { "pending", "error" }
            THEN { << "remoteRecovery", 0 >> } ELSE {})

\* One pass of the loop up to its wait: the vectors it builds, and whether
\* the wait throws at once (quorum(changes, 1) fails when all of changes
\* failed).
OnErrorPass(present, remoteRecovery) ==
    LET failedVec == OnErrorFailedVector(present)
        changesVec == OnErrorChangesVector(present, remoteRecovery)
    IN  [ watch |-> [failed |-> failedVec, changes |-> changesVec],
          pc |-> IF failedVec = {} THEN "assert_failed"
                 ELSE IF changesVec = { << "remoteRecovery", 0 >> }
                         /\ remoteRecovery = "error"
                 THEN "error"
                 ELSE "waiting" ]

\* onError(): the first pass of onError_internal.
OnError ==
    /\ onErrorPc = "idle"
    /\ LET pass == OnErrorPass(onErrorPresent, onErrorRemoteRecovery)
       IN  /\ onErrorWatch' = pass.watch
           /\ onErrorPc' = pass.pc
    /\ onErrorLast' = "call"
    /\ UNCHANGED << onErrorPresent, onErrorRemoteRecovery >>
    /\ UNCHANGED notOnError

\* What a change of the futures does to the waiting task: a future of
\* changes that became ready starts the next pass; remoteRecovery failing
\* fails quorum(changes, 1) when it is all of changes, and wakes nothing
\* otherwise.
OnErrorWakes(event, kind, present, remoteRecovery) ==
    IF onErrorPc = "waiting" /\ event \in onErrorWatch.changes
    THEN IF remoteRecovery = "error" /\ event = << "remoteRecovery", 0 >>
         THEN IF onErrorWatch.changes = { event }
              THEN /\ onErrorPc' = "error"
                   /\ onErrorLast' = kind
                   /\ UNCHANGED onErrorWatch
              ELSE UNCHANGED << onErrorWatch, onErrorPc, onErrorLast >>
         ELSE LET pass == OnErrorPass(present, remoteRecovery)
              IN  /\ onErrorWatch' = pass.watch
                  /\ onErrorPc' = pass.pc
                  /\ onErrorLast' = kind
    ELSE UNCHANGED << onErrorWatch, onErrorPc, onErrorLast >>

\* A handle receives an interface.
OnErrorHandleAppears(h) ==
    /\ ~ onErrorPresent[h]
    /\ onErrorPresent' = [onErrorPresent EXCEPT ![h] = TRUE]
    /\ OnErrorWakes(<< "onChange", h >>, "onChange", onErrorPresent',
                    onErrorRemoteRecovery)
    /\ UNCHANGED onErrorRemoteRecovery
    /\ UNCHANGED notOnError

\* remoteRecovery becomes ready.
OnErrorRemoteRecoveryReady ==
    /\ onErrorRemoteRecovery = "pending"
    /\ onErrorRemoteRecovery' = "ready"
    /\ OnErrorWakes(<< "remoteRecovery", 0 >>, "remoteRecovery", onErrorPresent, "ready")
    /\ UNCHANGED onErrorPresent
    /\ UNCHANGED notOnError

\* remoteRecovery fails.
OnErrorRemoteRecoveryFails ==
    /\ onErrorRemoteRecovery = "pending"
    /\ onErrorRemoteRecovery' = "error"
    /\ OnErrorWakes(<< "remoteRecovery", 0 >>, "remoteRecoveryError", onErrorPresent,
                    "error")
    /\ UNCHANGED onErrorPresent
    /\ UNCHANGED notOnError

\* The waitFailureClient of a handle of failed fires: tagError throws
\* master_tlog_failed.
OnErrorFailureFires(h) ==
    /\ onErrorPc = "waiting"
    /\ h \in onErrorWatch.failed
    /\ onErrorPc' = "master_tlog_failed"
    /\ onErrorLast' = "failure"
    /\ UNCHANGED << onErrorPresent, onErrorRemoteRecovery, onErrorWatch >>
    /\ UNCHANGED notOnError

\* A task of the actor collection fails: actors.getResult() throws.
OnErrorActorFails ==
    /\ onErrorPc = "waiting"
    /\ onErrorPc' = "error"
    /\ onErrorLast' = "actors"
    /\ UNCHANGED << onErrorPresent, onErrorRemoteRecovery, onErrorWatch >>
    /\ UNCHANGED notOnError

\* A LogSystem with at least one visited handle present.
OnErrorInit ==
    /\ Idle({ "onError" })
    /\ onErrorPresent \in [ OnErrorHandles -> BOOLEAN ]
    /\ \E h \in OnErrorVisited : onErrorPresent[h]
    /\ onErrorRemoteRecovery \in { "none", "pending" }
    /\ onErrorWatch = [failed |-> {}, changes |-> {}]
    /\ onErrorPc = "idle"
    /\ onErrorLast = "none"

OnErrorNext ==
    \/ OnError
    \/ \E h \in OnErrorHandles : OnErrorHandleAppears(h)
    \/ OnErrorRemoteRecoveryReady
    \/ OnErrorRemoteRecoveryFails
    \/ \E h \in OnErrorHandles : OnErrorFailureFires(h)
    \/ OnErrorActorFails

OnErrorSpec == OnErrorInit /\ [][OnErrorNext]_vars

\* onError never returns; while it waits it watches the failure monitor of
\* every present log server and log router of the current sets and of every
\* present log router of the old generation; a monitor that fires ends it
\* with master_tlog_failed, and nothing else does.
OnErrorWatchesAndThrows ==
    /\ onErrorPc \in { "idle", "waiting", "master_tlog_failed", "error" }
    /\ onErrorPc = "waiting" =>
          onErrorWatch.failed = { h \in { 1, 2, 3, 4 } : onErrorPresent[h] }
    /\ onErrorLast = "failure" <=> onErrorPc = "master_tlog_failed"

\* C11: onError never completes normally and throws master_tlog_failed as
\* soon as a watched failure monitor fires; a handle becoming present or
\* remoteRecovery becoming ready makes it rebuild its watch set and keep
\* waiting, unless remoteRecovery has failed and is all that is left to
\* watch for changes: then onError throws the error of remoteRecovery.
OnErrorNeverReturns ==
    /\ OnErrorWatchesAndThrows
    /\ onErrorLast \in { "onChange", "remoteRecovery" } =>
          \/ onErrorPc = "waiting"
          \/ /\ onErrorPc = "error"
             /\ onErrorRemoteRecovery = "error"
             /\ OnErrorChangesVector(onErrorPresent, onErrorRemoteRecovery)
                  = { << "remoteRecovery", 0 >> }

\* C11 witness: onError waits again after a handle became present, with
\* remoteRecovery ready and another handle still absent.
OnErrorNeverReturnsWitness ==
    /\ onErrorPc = "waiting"
    /\ onErrorLast = "onChange"
    /\ onErrorWatch.changes # {}
    /\ onErrorRemoteRecovery = "ready"

\* C11 as stated: a handle becoming present or remoteRecovery becoming
\* ready always leaves onError waiting.
OnErrorKeepsWaiting ==
    /\ OnErrorWatchesAndThrows
    /\ onErrorLast \in { "onChange", "remoteRecovery" } => onErrorPc = "waiting"


----------------------------------------------------------------------------
(* onError on the LogSystem newEpoch returns                               *)

\* Log server handles left as the resize of logServers made them.
NewEpochLogServersDummy == [ h \in OnErrorCurrentServers |-> FALSE ]

\* tLogs[0]->logServers[i] after newEpoch: a handle made from the
\* initialization reply of every recruited log server.
NewEpochLogServers == [ h \in OnErrorCurrentServers |-> TRUE ]

\* The LogSystem as newEpoch returns it: the handles of its primary log
\* servers hold an interface; the log routers of the old generation and of
\* the remote set are installed by recruitOldLogRouters and newRemoteEpoch,
\* before or after; remoteRecovery is pending, or the system has no remote
\* servers.
NewEpochOnErrorInit ==
    /\ Idle({ "onError" })
    /\ onErrorPresent \in [ OnErrorHandles -> BOOLEAN ]
    /\ \A h \in OnErrorCurrentServers : onErrorPresent[h] = NewEpochLogServers[h]
    /\ onErrorRemoteRecovery \in { "none", "pending" }
    /\ onErrorWatch = [failed |-> {}, changes |-> {}]
    /\ onErrorPc = "idle"
    /\ onErrorLast = "none"

NewEpochOnErrorSpec == NewEpochOnErrorInit /\ [][OnErrorNext]_vars

\* C40: on the LogSystem newEpoch returned, every pass of onError_internal
\* finds a present handle to watch: ASSERT( failed.size() >= 1 ) holds on
\* the first pass and on every pass after a handle changed or remoteRecovery
\* became ready.
OnErrorWatchesSomething ==
    /\ onErrorPc # "assert_failed"
    /\ onErrorPc # "idle" =>
          /\ onErrorWatch.failed # {}
          /\ onErrorWatch.failed \cap OnErrorCurrentServers # {}
    /\ OnErrorFailedVector(onErrorPresent) # {}

\* C40 witness: onError waits again after a log router handle received its
\* interface, while remoteRecovery is still pending and another handle
\* holds none.
OnErrorWatchesSomethingWitness ==
    /\ onErrorPc = "waiting"
    /\ onErrorLast = "onChange"
    /\ onErrorRemoteRecovery = "pending"
    /\ onErrorWatch.failed \cap (OnErrorCurrentRouters \cup OnErrorOldRouters) # {}
    /\ \E h \in OnErrorVisited : ~ onErrorPresent[h]

----------------------------------------------------------------------------
(* push and onError of one LogSystem: the commit requests of push are      *)
(* tasks of the actor collection onError waits on                          *)

notPushOnError == << epochEndVars, newEpochVars, popVars, peekVars, configVars,
    confirmVars, durableVars, lockVars,
    routerVars, seedVars, rejoinVars, lockTLogVars, locVars >>

\* The errors a task of reportTLogCommitErrors ends with.
CommitErrors == { "master_tlog_failed", "tlog_stopped" }

\* The errors of the commit requests that have failed.
TrackedFailures ==
    { commitReply[v][s] : v \in Versions, s \in Servers } \cap CommitErrors

\* A failed commit request that the actor collection does not hold.
ActorsUntracked(error) == UNCHANGED onErrorVars

\* actors.add(commitMessage): the error of a commit request fails
\* actors.getResult(), which ends a waiting onError_internal with that error.
ActorsTracked(error) ==
    IF onErrorPc = "waiting"
    THEN /\ onErrorPc' = error
         /\ onErrorLast' = "actors"
         /\ UNCHANGED << onErrorPresent, onErrorRemoteRecovery, onErrorWatch >>
    ELSE UNCHANGED onErrorVars

\* The reply of server s to the commit of version v fails with the error
\* reportTLogCommitErrors throws: the quorum of the set and the actor
\* collection see it.
TrackedCommitFails(v, s, error) ==
    /\ commitReply' = [commitReply EXCEPT ![v][s] = error]
    /\ pushResult' = [pushResult EXCEPT ![v] =
           IF @ = "running" THEN PushFuture(tLogs, commitReply'[v]) ELSE @]
    /\ ActorsTracked(error)
    /\ UNCHANGED << tLogs, tlogVersion, tlogKnownCommitted, tlogStopped,
                    pushKnownCommitted, lockReplies, durableResult >>
    /\ UNCHANGED notPushOnError

\* The connection to a server breaks before it handled the commit:
\* broken_promise, thrown on as master_tlog_failed.
TrackedCommitBroken(v, s) ==
    /\ commitReply[v][s] = "sent"
    /\ TrackedCommitFails(v, s, "master_tlog_failed")

\* A stopped server refuses the commit: tlog_stopped, thrown on as it is.
TrackedCommitStopped(v, s) ==
    /\ commitReply[v][s] = "sent"
    /\ tlogStopped[s]
    /\ TrackedCommitFails(v, s, "tlog_stopped")

\* onError() on a LogSystem whose actor collection may hold failed tasks:
\* the first wait of onError_internal throws the error of actors.getResult().
TrackedOnError ==
    /\ onErrorPc = "idle"
    /\ LET pass == OnErrorPass(onErrorPresent, onErrorRemoteRecovery)
       IN  /\ onErrorWatch' = pass.watch
           /\ IF TrackedFailures = {}
              THEN onErrorPc' = pass.pc /\ onErrorLast' = "call"
              ELSE onErrorPc' \in TrackedFailures /\ onErrorLast' = "actors"
    /\ UNCHANGED << onErrorPresent, onErrorRemoteRecovery >>
    /\ UNCHANGED notOnError

\* A system whose primary set takes one missing acknowledgement, with every
\* handle present and no remote recovery.
TrackedInit ==
    /\ Idle({ "push", "onError" })
    /\ tLogs \in { sys \in PushSystems :
                     \E i \in DOMAIN sys : sys[i].tLogWriteAntiQuorum > 0 }
    /\ tlogVersion = [ s \in Servers |-> 0 ]
    /\ tlogKnownCommitted = [ s \in Servers |-> 0 ]
    /\ tlogStopped = [ s \in Servers |-> FALSE ]
    /\ commitReply = [ v \in Versions |-> [ s \in Servers |-> "none" ] ]
    /\ pushKnownCommitted = [ v \in Versions |-> 0 ]
    /\ pushResult = [ v \in Versions |-> "idle" ]
    /\ lockReplies = [ s \in Servers |-> NoReply ]
    /\ durableResult = [present |-> FALSE, set |-> 0, first |-> 0, second |-> 0]
    /\ onErrorPresent = [ h \in OnErrorHandles |-> TRUE ]
    /\ onErrorRemoteRecovery = "none"
    /\ onErrorWatch = [failed |-> {}, changes |-> {}]
    /\ onErrorPc = "idle"
    /\ onErrorLast = "none"

TrackedNext ==
    \/ \E v \in Versions : Push(v)
    \/ \E v \in Versions, s \in Servers : ~ tlogStopped[s] /\ TLogCommit(v, s)
    \/ \E v \in Versions, s \in Servers : CommitReplyArrives(v, s)
    \/ \E v \in Versions, s \in Servers : TrackedCommitBroken(v, s)
    \/ \E v \in Versions, s \in Servers : TrackedCommitStopped(v, s)
    \/ \E s \in Servers : LockTLog(s)
    \/ TrackedOnError

TrackedSpec == TrackedInit /\ [][TrackedNext]_vars

\* C37: every commit request push has issued is a task of the actor
\* collection: once one of them has failed, with master_tlog_failed for a
\* broken promise or with tlog_stopped, an onError that was called has
\* thrown the error of a failed request, whether or not the push of the
\* request succeeded; and it throws nothing as long as none has failed.
CommitErrorsReachOnError ==
    /\ onErrorPc # "idle" =>
          IF TrackedFailures = {} THEN onErrorPc = "waiting"
          ELSE onErrorPc \in TrackedFailures /\ onErrorLast = "actors"
    /\ [ v \in Versions |-> { s \in Servers : commitReply[v][s] # "none" } ]
          = [ v \in Versions |->
                IF pushResult[v] = "idle" THEN {}
                ELSE UNION { ServersOf(tLogs[i]) : i \in PushSets(tLogs) } ]

\* C37 witness: a push succeeded with N - A acknowledgements while the
\* reply of the remaining server failed, and onError has thrown the error
\* of that reply.
CommitErrorsReachOnErrorWitness ==
    \E v \in Versions, s \in Servers :
        /\ pushResult[v] = "success"
        /\ commitReply[v][s] \in CommitErrors
        /\ onErrorPc = commitReply[v][s]
        /\ onErrorLast = "actors"
        /\ onErrorWatch.failed # {}

----------------------------------------------------------------------------
(* getDurableVersion on one LogLockInfo                                    *)

\* The sets getDurableVersion is called on: three servers with replication
\* factor 3, and four servers with replication factor 3 and anti-quorum 1.
DurableLogSets ==
    { LogSet(<<1, 2, 3>>, <<"z1", "z2", "z3">>, 3, 0, TRUE, "primary"),
      LogSet(<<1, 2, 3, 4>>, <<"z1", "z2", "z3", "z4">>, 3, 1, TRUE, "primary") }

\* The lock results a server of the set may answer with.
DurableReplyValues(logSet) ==
    IF logSet.tLogWriteAntiQuorum = 0
    THEN { [ready |-> TRUE, end |-> e, knownCommittedVersion |-> k] :
             e \in { 100, 102 }, k \in { 98, 99, 100 } }
    ELSE { [ready |-> TRUE, end |-> e, knownCommittedVersion |-> e - 1] :
             e \in { 50, 60, 70, 80 } }

\* The values of lastEnd getDurableVersion is called with.
DurableLastEnds == { NoVersion, SomeVersion(60), SomeVersion(101) }

NoDurableCall == [called |-> FALSE]

\* The lock reply of the server at position t arrives.
DurableLockReply(t, r) ==
    /\ t \in DOMAIN durableLockInfo.replies
    /\ ~ durableLockInfo.replies[t].ready
    /\ r \in DurableReplyValues(durableLockInfo.logSet)
    /\ durableLockInfo' = [durableLockInfo EXCEPT !.replies[t] = r]
    /\ durableCall' = NoDurableCall
    /\ UNCHANGED notDurable

\* getDurableVersion(dbgid, lockInfo, failed, lastEnd)
DurableGet(failed, lastEndArg) ==
    /\ failed \subseteq DOMAIN durableLockInfo.replies
    /\ ~ durableCall.called
    /\ durableCall' = [called |-> TRUE, failed |-> failed, lastEnd |-> lastEndArg,
                       result |-> GetDurableVersion(durableLockInfo.logSet,
                                      durableLockInfo.replies, failed, lastEndArg)]
    /\ UNCHANGED durableLockInfo
    /\ UNCHANGED notDurable

DurableInit ==
    /\ Idle({ "durable" })
    /\ \E logSet \in DurableLogSets :
          durableLockInfo = [logSet |-> logSet,
                             replies |-> [t \in DOMAIN logSet.logServers |-> NoReply]]
    /\ durableCall = NoDurableCall

DurableNext ==
    \/ \E t \in 1 .. 4 : \E r \in UNION { DurableReplyValues(s) : s \in DurableLogSets } :
          DurableLockReply(t, r)
    \/ \E failed \in SUBSET (1 .. 4), lastEndArg \in DurableLastEnds :
          DurableGet(failed, lastEndArg)

DurableSpec == DurableInit /\ [][DurableNext]_vars

\* The positions whose reply the last call counted: ready and not failed.
DurableResponded ==
    { t \in DOMAIN durableLockInfo.replies :
        durableLockInfo.replies[t].ready /\ t \notin durableCall.failed }

\* The last call was made on a set with the given R, A and N.
DurableCalledOn(R, A, N) ==
    /\ durableCall.called
    /\ durableLockInfo.logSet.tLogReplicationFactor = R
    /\ durableLockInfo.logSet.tLogWriteAntiQuorum = A
    /\ Len(durableLockInfo.logSet.logServers) = N

\* C15: on a set with R = 3, A = 0, N = 3 in which one server's lock reply
\* is present and the other two have not replied, getDurableVersion without
\* lastEnd returns a durable version: the end of that reply, with the larger
\* of its known committed version and its end minus the bound.
DurableOneReplyOfThree ==
    ( /\ DurableCalledOn(3, 0, 3)
      /\ ~ durableCall.lastEnd.present
      /\ Cardinality(DurableResponded) = 1
      /\ durableCall.failed = {} )
    => \A t \in DurableResponded :
          /\ durableCall.result.present
          /\ durableCall.result.second = durableLockInfo.replies[t].end
          /\ durableCall.result.first =
                Max(durableLockInfo.replies[t].end - MaxReadTransactionLifeVersions,
                    durableLockInfo.replies[t].knownCommittedVersion)

\* C15 witness: such a call, answered with a durable version.
DurableOneReplyOfThreeWitness ==
    /\ DurableCalledOn(3, 0, 3)
    /\ ~ durableCall.lastEnd.present
    /\ Cardinality(DurableResponded) = 1
    /\ durableCall.failed = {}
    /\ durableCall.result.present

\* C15 as stated: on such a set with one reply present and two servers that
\* have not replied, getDurableVersion returns no durable version.
DurableOneReplyOfThreeIsEmpty ==
    ( /\ DurableCalledOn(3, 0, 3)
      /\ Cardinality(DurableResponded) = 1
      /\ durableCall.failed = {} )
    => ~ durableCall.result.present

\* The end at 0-based index idx of the ends of the responded servers in
\* ascending order: at most idx of them lie below it, more than idx at or
\* below it.
DurableEndAt(idx) ==
    CHOOSE e \in { durableLockInfo.replies[t].end : t \in DurableResponded } :
        /\ Cardinality({ t \in DurableResponded : durableLockInfo.replies[t].end < e }) <= idx
        /\ Cardinality({ t \in DurableResponded : durableLockInfo.replies[t].end <= e }) > idx

\* The replies of the last call are ready, with these ends and known
\* committed versions in server order, and no server is flagged failed.
DurableRepliesAre(ends, kcvs) ==
    /\ durableCall.called
    /\ durableCall.failed = {}
    /\ DOMAIN durableLockInfo.replies = DOMAIN ends
    /\ \A t \in DOMAIN ends :
          /\ durableLockInfo.replies[t].ready
          /\ durableLockInfo.replies[t].end = ends[t]
          /\ kcvs # << >> => durableLockInfo.replies[t].knownCommittedVersion = kcvs[t]

\* C16: a call of getDurableVersion without lastEnd returns a durable
\* version exactly when failures are not too many; its end is the end at
\* index min(A, |responded| - 1) of the responded servers sorted by end
\* ascending, its known committed version the larger of that end minus the
\* bound and the largest known committed version among the responded. With
\* R = 3, A = 0, N = 3, ends 100, 100, 102 and known committed versions 99,
\* 99, 100 it returns (100, 100); with R = 3, A = 1, N = 4 and ends 50, 60,
\* 70, 80 its end is 60.
DurableVersionPicked ==
    ( durableCall.called /\ ~ durableCall.lastEnd.present )
    => LET logSet == durableLockInfo.logSet
           N == Len(logSet.logServers)
           idx == Min(logSet.tLogWriteAntiQuorum, Cardinality(DurableResponded) - 1)
           tooMany == TooManyFailures(logSet, Cardinality(DurableResponded),
                         SelectIdx(logSet.tLogLocalities, (1 .. N) \ DurableResponded, 1),
                         SelectIdx(logSet.tLogLocalities, DurableResponded, 1))
       IN  /\ durableCall.result.present <=> ~ tooMany
           /\ durableCall.result.present =>
                /\ durableCall.result.second = DurableEndAt(idx)
                /\ durableCall.result.first =
                      Max(DurableEndAt(idx) - MaxReadTransactionLifeVersions,
                          SetMax({ durableLockInfo.replies[t].knownCommittedVersion :
                                     t \in DurableResponded }))
           /\ DurableRepliesAre(<<100, 100, 102>>, <<99, 99, 100>>)
                => /\ durableCall.result.present
                   /\ durableCall.result.first = 100
                   /\ durableCall.result.second = 100
           /\ DurableRepliesAre(<<50, 60, 70, 80>>, << >>)
                => durableCall.result.present /\ durableCall.result.second = 60

\* C16 witness: the call on four servers with anti-quorum 1 whose replies
\* came with the ends 80, 60, 50, 70 in server order, answered with end 60.
DurableVersionPickedWitness ==
    /\ DurableRepliesAre(<<80, 60, 50, 70>>, << >>)
    /\ ~ durableCall.lastEnd.present
    /\ durableCall.result.present
    /\ durableCall.result.second = 60

----------------------------------------------------------------------------
(* getDurableVersion on any set whose servers are each a zone of their own *)

\* A set has at most MaxDurableServers log servers.
MaxDurableServers == 3

DurableZoneNames == << "z1", "z2", "z3", "z4", "z5" >>

\* The sets with N servers in N zones, replication factor 1 <= R <= N and
\* anti-quorum 0 <= A < R: any R servers satisfy the policy.
DurableAnySets ==
    UNION { UNION { { LogSet([t \in 1 .. N |-> t], SubSeq(DurableZoneNames, 1, N),
                             R, A, TRUE, "primary") : A \in 0 .. R - 1 } :
                    R \in 1 .. N } :
            N \in 1 .. MaxDurableServers }

\* The lock results a server of these sets answers with.
DurableAnyReplyValues ==
    { r \in UNION { DurableReplyValues(s) : s \in DurableAnySets } :
        /\ r.knownCommittedVersion \in { r.end - 1, r.end - 2 }
        /\ r.end # 80 }

\* The three ASSERTs of getDurableVersion on requiredCount, the replication
\* factor and the anti-quorum of the set.
GetDurableVersionAsserts(logSet) ==
    LET N == Len(logSet.logServers)
        requiredCount == N + 1 - logSet.tLogReplicationFactor + logSet.tLogWriteAntiQuorum
    IN  /\ requiredCount > 0 /\ requiredCount <= N
        /\ logSet.tLogReplicationFactor >= 1 /\ logSet.tLogReplicationFactor <= N
        /\ logSet.tLogWriteAntiQuorum >= 0 /\ logSet.tLogWriteAntiQuorum < N

DurableAnyInit ==
    /\ Idle({ "durable" })
    /\ \E logSet \in DurableAnySets :
          durableLockInfo = [logSet |-> logSet,
                             replies |-> [t \in DOMAIN logSet.logServers |-> NoReply]]
    /\ durableCall = NoDurableCall

DurableAnyNext ==
    \/ \E t \in 1 .. MaxDurableServers : \E r \in DurableAnyReplyValues :
          DurableLockReply(t, r)
    \/ \E failed \in SUBSET (1 .. MaxDurableServers), lastEndArg \in DurableLastEnds :
          DurableGet(failed, lastEndArg)

DurableAnySpec == DurableAnyInit /\ [][DurableAnyNext]_vars

\* requiredCount of the set the last call was made on.
DurableRequiredCount ==
    Len(durableLockInfo.logSet.logServers) + 1
        - durableLockInfo.logSet.tLogReplicationFactor
        + durableLockInfo.logSet.tLogWriteAntiQuorum

\* C33: on a set of N servers that any R of them satisfy the policy of,
\* with N >= R >= 1 and 0 <= A < R, the three assertions of
\* getDurableVersion hold, and a call without lastEnd returns a durable
\* version iff at least requiredCount = N + 1 - R + A servers responded.
DurableRequiredCountDecides ==
    /\ GetDurableVersionAsserts(durableLockInfo.logSet)
    /\ ( durableCall.called /\ ~ durableCall.lastEnd.present )
          => ( durableCall.result.present
                 <=> Cardinality(DurableResponded) >= DurableRequiredCount )

\* C33 witness: a call without lastEnd on a set with an anti-quorum that
\* returns a durable version with exactly requiredCount servers responded,
\* one server flagged failed.
DurableRequiredCountDecidesWitness ==
    /\ durableCall.called
    /\ ~ durableCall.lastEnd.present
    /\ durableLockInfo.logSet.tLogWriteAntiQuorum > 0
    /\ durableCall.failed # {}
    /\ durableCall.result.present
    /\ Cardinality(DurableResponded) = DurableRequiredCount

\* A call without lastEnd that returns nothing with requiredCount - 1
\* servers responded, more than the anti-quorum.
DurableRequiredCountRefusesWitness ==
    /\ durableCall.called
    /\ ~ durableCall.lastEnd.present
    /\ ~ durableCall.result.present
    /\ Cardinality(DurableResponded) = DurableRequiredCount - 1
    /\ Cardinality(DurableResponded) > durableLockInfo.logSet.tLogWriteAntiQuorum

----------------------------------------------------------------------------
(* getDurableVersion of a recovering master on a set of a LogSystem whose  *)
(* master then calls confirmEpochLive                                      *)

\* The LogSystems: a set of three servers in two zones; a primary set with
\* an anti-quorum next to a satellite set.
LiveSystems ==
    { << LogSet(<<1, 2, 3>>, <<"z1", "z1", "z2">>, 2, 0, TRUE, "primary") >>,
      << LogSet(<<1, 2>>, <<"z1", "z2">>, 2, 1, TRUE, "primary"),
         LogSet(<<3>>, <<"z3">>, 1, 0, TRUE, "satellite") >> }

\* The lock results a server answers with.
LiveReplyValues ==
    { r \in UNION { DurableReplyValues(s[1]) : s \in LiveSystems } :
        r.knownCommittedVersion \in { 98, 49, 59 } }

\* Server s has answered the lock request of the recovering master.
LiveLocked(s) ==
    \E t \in DOMAIN durableLockInfo.replies :
        durableLockInfo.logSet.logServers[t] = s /\ durableLockInfo.replies[t].ready

\* The lock replies arrive and getDurableVersion is evaluated before
\* confirmEpochLive sends its requests; a server that has answered the lock
\* request is stopped and does not acknowledge a confirmRunning request.
LiveInit ==
    /\ Idle({ "durable", "confirm" })
    /\ confirmSets \in LiveSystems
    /\ confirmPresent \in [ ConfirmServers -> BOOLEAN ]
    /\ \A s \in ConfirmServers \ UNION { ServersOf(confirmSets[t]) : t \in DOMAIN confirmSets } :
          confirmPresent[s]
    /\ \A t \in ConfirmedSets(confirmSets) :
          ConfirmQuorumSize(confirmSets[t], confirmPresent) >= 1
    /\ confirmAlive = [ s \in ConfirmServers |-> "none" ]
    /\ confirmInternal = [ t \in DOMAIN confirmSets |-> "none" ]
    /\ confirmResult = "idle"
    /\ \E t \in ConfirmedSets(confirmSets) :
          durableLockInfo = [logSet |-> confirmSets[t],
                             replies |-> [p \in DOMAIN confirmSets[t].logServers |-> NoReply]]
    /\ durableCall = NoDurableCall

LiveNext ==
    \/ /\ confirmResult = "idle" /\ ~ durableCall.called
       /\ \E t \in 1 .. 3 : \E r \in LiveReplyValues : DurableLockReply(t, r)
    \/ /\ confirmResult = "idle"
       /\ \E failed \in SUBSET (1 .. 3), lastEndArg \in DurableLastEnds :
             DurableGet(failed, lastEndArg)
    \/ ConfirmEpochLive
    \/ \E s \in ConfirmServers : ~ LiveLocked(s) /\ ConfirmRunningReply(s)
    \/ \E s \in ConfirmServers : ConfirmRunningStopped(s)
    \/ \E s \in ConfirmServers : ConfirmRunningBroken(s)

LiveSpec == LiveInit /\ [][LiveNext]_vars

\* The servers of the set getDurableVersion was called on that acknowledged
\* the confirmRunning request, by position.
LiveAcknowledged ==
    { t \in DOMAIN durableLockInfo.replies :
        confirmAlive[durableLockInfo.logSet.logServers[t]] = "ack" }

\* C36: once getDurableVersion has returned a result for a local set, from
\* lock replies received before confirmEpochLive sent its requests,
\* confirmEpochLive does not succeed: the servers of the set that
\* acknowledge are among those getDurableVersion did not count, and these
\* do not satisfy the policy of the set.
DurableEndsEpoch ==
    ( durableCall.called /\ durableCall.result.present ) =>
       LET logSet == durableLockInfo.logSet
           notCounted == DOMAIN durableLockInfo.replies \ DurableResponded
       IN  /\ confirmResult # "success"
           /\ LiveAcknowledged \subseteq notCounted
           /\ ~ Validate(logSet.tLogPolicy, SelectIdx(logSet.tLogLocalities, notCounted, 1))

\* C36 witness: getDurableVersion returned a result, and confirmEpochLive
\* then got acknowledgements of as many servers of the set as its
\* replication factor.
DurableEndsEpochWitness ==
    /\ durableCall.called /\ durableCall.result.present
    /\ confirmResult = "running"
    /\ Cardinality(LiveAcknowledged) >= durableLockInfo.logSet.tLogReplicationFactor

----------------------------------------------------------------------------
(* The locks epochEnd issues on the sets of the previous state              *)

\* The previous state has at most MaxLockGenerations old generations.
MaxLockGenerations == 2

EpochEndLockLocalities == { "primary", "remote", "special", "upgraded" }

\* The localities of the sets of one generation: one set, or two sets of
\* different localities.
EpochEndLockGenerations ==
    { << a >> : a \in EpochEndLockLocalities }
    \cup { ab \in EpochEndLockLocalities \X EpochEndLockLocalities : ab[1] # ab[2] }

\* The sets of generation g (0: the current one) with the given localities;
\* the first set has two log servers, a second one has one.
EpochEndLockSets(g, localities) ==
    [ j \in DOMAIN localities |->
        [locality |-> localities[j],
         logServers |-> IF j = 1 THEN << << g, j, 1 >>, << g, j, 2 >> >>
                        ELSE << << g, j, 1 >> >>] ]

\* The previous states: current sets and old generations, the newest first
\* and with the largest epochEnd.
EpochEndLockPrevStates ==
    { [tLogs |-> EpochEndLockSets(0, current),
       oldTLogData |-> [ g \in DOMAIN olds |->
                           [tLogs |-> EpochEndLockSets(g, olds[g]),
                            epochEnd |-> Len(olds) + 1 - g] ]] :
        current \in EpochEndLockGenerations,
        olds \in UNION { [ 1 .. n -> EpochEndLockGenerations ] : n \in 0 .. MaxLockGenerations } }

\* The reply futures of the lockTLog calls on the servers of a set.
EpochEndLockReplies(logSet) ==
    [ t \in DOMAIN logSet.logServers |-> [lockTLog |-> logSet.logServers[t]] ]

IsSpecialLocality(locality) == locality \in { "special", "upgraded" }

\* The first loop of epochEnd over logServers: one LogLockInfo per current
\* set, and the localities locked and foundSpecial after it.
EpochEndLockCurrent(sets) ==
    [foundSpecial |-> \E i \in DOMAIN sets : IsSpecialLocality(sets[i].locality),
     lockedLocalities |-> { sets[i].locality : i \in DOMAIN sets },
     lockResults |-> [ i \in DOMAIN sets |->
                         [epochEnd |-> VersionLimit, isCurrent |-> TRUE,
                          logSet |-> sets[i], replies |-> EpochEndLockReplies(sets[i])] ],
     break |-> FALSE]

\* An old set of a special locality that is locked like any other.
EpochEndLockBreaksNever(locality) == FALSE

\* if (log->locality == tagLocalitySpecial || log->locality == tagLocalityUpgraded)
EpochEndLockBreaks(locality) == IsSpecialLocality(locality)

\* The inner loop over the sets of one old generation, from set j on.
RECURSIVE EpochEndLockOldSets(_, _, _)
EpochEndLockOldSets(old, j, st) ==
    IF j > Len(old.tLogs) THEN st
    ELSE LET log == old.tLogs[j]
         IN  IF EpochEndLockBreaks(log.locality)
             THEN [st EXCEPT !.foundSpecial = TRUE]
             ELSE IF log.locality \notin st.lockedLocalities
             THEN EpochEndLockOldSets(old, j + 1,
                      [st EXCEPT !.lockedLocalities = @ \cup { log.locality },
                                 !.lockResults = Append(@,
                                     [epochEnd |-> old.epochEnd, isCurrent |-> FALSE,
                                      logSet |-> log,
                                      replies |-> EpochEndLockReplies(log)])])
             ELSE EpochEndLockOldSets(old, j + 1, st)

\* The loop over oldLogData, from generation g on.
RECURSIVE EpochEndLockOld(_, _, _)
EpochEndLockOld(olds, g, st) ==
    IF g > Len(olds) \/ st.foundSpecial THEN st
    ELSE EpochEndLockOld(olds, g + 1, EpochEndLockOldSets(olds[g], 1, st))

\* lockResults as epochEnd builds it from the previous state.
EpochEndLockResults(prev) ==
    EpochEndLockOld(prev.oldTLogData, 1, EpochEndLockCurrent(prev.tLogs)).lockResults

\* epochEnd, called on a previous state with sets, up to its main loop.
EpochEndLocks ==
    /\ lockInfos = << >>
    /\ lockInfos' = EpochEndLockResults(lockPrevState)
    /\ UNCHANGED lockPrevState
    /\ UNCHANGED notLock

EpochEndLockInit ==
    /\ Idle({ "lock" })
    /\ lockPrevState \in EpochEndLockPrevStates
    /\ lockInfos = << >>

EpochEndLockNext == EpochEndLocks

EpochEndLockSpec == EpochEndLockInit /\ [][EpochEndLockNext]_vars

\* The old sets of the previous state, as (generation, position), and their
\* order in the loops of epochEnd.
EpochEndLockOldPairs ==
    { gj \in (DOMAIN lockPrevState.oldTLogData) \X (1 .. 2) :
        gj[2] \in DOMAIN lockPrevState.oldTLogData[gj[1]].tLogs }

EpochEndLockOldSet(gj) == lockPrevState.oldTLogData[gj[1]].tLogs[gj[2]]

EpochEndLockVisitedBefore(gj) ==
    { other \in EpochEndLockOldPairs :
        other[1] < gj[1] \/ (other[1] = gj[1] /\ other[2] < gj[2]) }

\* A special or upgraded locality is met in a current set or in an old set
\* before the old set gj.
EpochEndLockSpecialBefore(gj) ==
    \/ \E i \in DOMAIN lockPrevState.tLogs : IsSpecialLocality(lockPrevState.tLogs[i].locality)
    \/ \E other \in EpochEndLockVisitedBefore(gj) :
          IsSpecialLocality(EpochEndLockOldSet(other).locality)

\* The locality of the old set gj is that of a current set or of an old set
\* before it.
EpochEndLockLocalityBefore(gj) ==
    \/ \E i \in DOMAIN lockPrevState.tLogs :
          lockPrevState.tLogs[i].locality = EpochEndLockOldSet(gj).locality
    \/ \E other \in EpochEndLockVisitedBefore(gj) :
          EpochEndLockOldSet(other).locality = EpochEndLockOldSet(gj).locality

\* lockResults holds a LogLockInfo of the old set gj.
EpochEndLockHolds(gj) ==
    \E n \in DOMAIN lockInfos : lockInfos[n].logSet = EpochEndLockOldSet(gj)

\* What holds of lockResults apart from the choice of the old sets: the
\* first entries are those of the current sets, in their order and current;
\* the others are not current, each of an old set and with the epochEnd of
\* its generation, no two of one locality and none of the locality of a
\* current set; and every entry has one reply per server, in server order.
EpochEndLockShape ==
    LET current == lockPrevState.tLogs
        extra == { n \in DOMAIN lockInfos : n > Len(current) }
    IN  /\ Len(lockInfos) >= Len(current)
        /\ \A i \in DOMAIN current :
              lockInfos[i].isCurrent /\ lockInfos[i].logSet = current[i]
        /\ \A n \in extra :
              /\ ~ lockInfos[n].isCurrent
              /\ \E gj \in EpochEndLockOldPairs :
                    /\ lockInfos[n].logSet = EpochEndLockOldSet(gj)
                    /\ lockInfos[n].epochEnd = lockPrevState.oldTLogData[gj[1]].epochEnd
              /\ \A m \in extra \ { n } :
                    lockInfos[m].logSet.locality # lockInfos[n].logSet.locality
              /\ \A i \in DOMAIN current :
                    current[i].locality # lockInfos[n].logSet.locality
        /\ \A n \in DOMAIN lockInfos :
              /\ DOMAIN lockInfos[n].replies = DOMAIN lockInfos[n].logSet.logServers
              /\ \A t \in DOMAIN lockInfos[n].replies :
                    lockInfos[n].replies[t].lockTLog = lockInfos[n].logSet.logServers[t]

\* C20: epochEnd locks every server of every current set, lockResults[i]
\* being current and that of current set i; it locks an old set iff the
\* locality of the set is not special or upgraded, no special or upgraded
\* locality was met in the current sets or in an old set before it, and its
\* locality was not locked already; so lockResults has at most one entry
\* that is not current per locality and none of the locality of a current
\* set; every entry has one reply future per server of its set, in server
\* order, and one that is not current carries the epochEnd of its
\* generation.
EpochEndLocksOldSets ==
    lockInfos # << >> =>
        /\ EpochEndLockShape
        /\ \A gj \in EpochEndLockOldPairs :
              EpochEndLockHolds(gj) <=>
                 /\ ~ IsSpecialLocality(EpochEndLockOldSet(gj).locality)
                 /\ ~ EpochEndLockSpecialBefore(gj)
                 /\ ~ EpochEndLockLocalityBefore(gj)

\* C20 witness: an old set of the second old generation is locked, and an
\* old set of a special or upgraded locality, the first of such a locality
\* that is met, is not.
EpochEndLocksOldSetsWitness ==
    /\ lockInfos # << >>
    /\ \E gj \in EpochEndLockOldPairs : gj[1] = 2 /\ EpochEndLockHolds(gj)
    /\ \E gj \in EpochEndLockOldPairs :
          /\ IsSpecialLocality(EpochEndLockOldSet(gj).locality)
          /\ ~ EpochEndLockSpecialBefore(gj)
          /\ ~ EpochEndLockLocalityBefore(gj)
          /\ ~ EpochEndLockHolds(gj)

\* C20 as stated: an old set is locked iff no special or upgraded locality
\* was met in the current sets or in an old set before it and its locality
\* was not locked already.
EpochEndLocksOldSetsUnlessSpecialBefore ==
    lockInfos # << >> =>
        \A gj \in EpochEndLockOldPairs :
            EpochEndLockHolds(gj) <=>
               /\ ~ EpochEndLockSpecialBefore(gj)
               /\ ~ EpochEndLockLocalityBefore(gj)

----------------------------------------------------------------------------
(* peekAll on a LogSystem made by fromLogSystemConfig: the sets are those  *)
(* of the configuration received, whatever they are.                       *)

\* The configuration received holds at most MaxConfigSets sets.
MaxConfigSets == 2

\* The sets a configuration can hold: local or not, with or without
\* servers, with or without the best policy, of a locality.
ConfigPeekSets ==
    { PeekSet(local, servers, 0, 1, best, loc) :
        local \in BOOLEAN, servers \in 0 .. 1, best \in BOOLEAN,
        loc \in { "primary", "remote", "upgraded" } }

\* fromLogSystemConfig: a running LogSystem with the sets of the
\* configuration and no old generation.
PeekConfigInit ==
    /\ Idle({ "peek" })
    /\ \E n \in 1 .. MaxConfigSets : peekTLogs \in [1 .. n -> ConfigPeekSets]
    /\ peekOldLogData = << >>
    /\ peekEpochEnd = NoVersion
    /\ peekPushed = << >>
    /\ peekCursor = NoCursor
    /\ peekLocalCursor = NoCursor
    /\ peekSingle = << >>

PeekConfigNext == \E tag \in PeekTags : Peek(1, tag)

PeekConfigSpec == PeekConfigInit /\ [][PeekConfigNext]_vars

\* Set t is a local set with servers that carries hasBestPolicy and whose
\* locality equals that of the tag or is special or upgraded, or the tag's
\* locality is special.
PeekAllQualifies(t, tag) ==
    /\ peekTLogs[t].isLocal
    /\ peekTLogs[t].logServers > 0
    /\ peekTLogs[t].hasBestPolicy
    /\ \/ peekTLogs[t].locality = tag.locality
       \/ peekTLogs[t].locality \in { "special", "upgraded" }
       \/ tag.locality = "special"

\* The last peek went to peekAll, which found a set that qualifies.
PeekAllFoundBest ==
    /\ peekCursor.type = "SetPeekCursor"
    /\ \E t \in DOMAIN peekTLogs : PeekAllQualifies(t, peekCursor.tag)

\* C22: the best set of peekAll is a local set that carries hasBestPolicy
\* and whose locality equals the tag's locality or is special or upgraded
\* (or the tag's locality is special); when several local sets qualify, the
\* last of them in tLogs order is chosen.
PeekAllBestIsLast ==
    PeekAllFoundBest =>
       /\ PeekAllQualifies(peekCursor.cursors[1].bestSet, peekCursor.tag)
       /\ \A t \in DOMAIN peekTLogs :
             PeekAllQualifies(t, peekCursor.tag) => t <= peekCursor.cursors[1].bestSet

\* C22 witness: the first and the second set qualify and peekAll chose the
\* second.
PeekAllBestIsLastWitness ==
    /\ PeekAllFoundBest
    /\ Len(peekTLogs) >= 2
    /\ PeekAllQualifies(1, peekCursor.tag)
    /\ PeekAllQualifies(2, peekCursor.tag)
    /\ peekCursor.cursors[1].bestSet = 2

\* C22 as stated: when several local sets qualify, the earliest is chosen.
PeekAllBestIsFirst ==
    PeekAllFoundBest =>
       /\ PeekAllQualifies(peekCursor.cursors[1].bestSet, peekCursor.tag)
       /\ \A t \in DOMAIN peekTLogs :
             PeekAllQualifies(t, peekCursor.tag) => peekCursor.cursors[1].bestSet <= t

----------------------------------------------------------------------------
(* peekRemote on a LogSystem made by fromLogSystemConfig, with the old     *)
(* generations of the configuration.                                       *)

\* The configuration received holds at most MaxRemoteOld old generations.
MaxRemoteOld == 1

\* The sets of a configuration as peekRemote reads them: local sets, which
\* start at a version, and sets that are not local, each with or without
\* log routers.
RemotePeekSets ==
    { PeekSet(TRUE, 1, routers, start, TRUE, "primary") :
        routers \in 0 .. 1, start \in 1 .. 2 }
    \cup { PeekSet(FALSE, 1, routers, 1, TRUE, "remote") : routers \in 0 .. 1 }

\* The set lists of one generation: one or two sets, at most one of them
\* with log routers.
RemotePeekGenerations ==
    { sets \in [1 .. 1 -> RemotePeekSets] \cup [1 .. 2 -> RemotePeekSets] :
        Cardinality(RouterSets(sets)) <= 1 }

PeekRemoteInit ==
    /\ Idle({ "peek" })
    /\ peekTLogs \in RemotePeekGenerations
    /\ \E n \in 0 .. MaxRemoteOld :
          peekOldLogData \in [1 .. n -> [tLogs : RemotePeekGenerations, epochEnd : { 2 }]]
    /\ peekEpochEnd = NoVersion
    /\ peekPushed = << >>
    /\ peekCursor = NoCursor
    /\ peekLocalCursor = NoCursor
    /\ peekSingle = << >>

PeekRemoteNext == \E begin \in 0 .. 2 : Peek(begin, RemoteLogTag)

PeekRemoteSpec == PeekRemoteInit /\ [][PeekRemoteNext]_vars

\* The largest startVersion of the local sets of generation j (0: current).
PeekRemoteStart(j) == MaxStart(GenerationSets(j), IsLocalSets(GenerationSets(j)), 0)

\* peekRemote consults old generation i to reach begin: begin lies below the
\* local sets of every generation newer than i.
PeekRemoteConsults(i, begin) == \A j \in 0 .. i - 1 : begin < PeekRemoteStart(j)

\* The current generation has no set with log routers, or an old generation
\* consulted to reach begin has none, or the old generations run out before
\* begin is reached.
PeekRemoteDead(begin) ==
    \/ RouterSets(peekTLogs) = {}
    \/ \E i \in DOMAIN peekOldLogData :
          /\ PeekRemoteConsults(i, begin)
          /\ RouterSets(peekOldLogData[i].tLogs) = {}
    \/ PeekRemoteConsults(Len(peekOldLogData) + 1, begin)

\* The last peek went to peekRemote.
PeekRemoteMade ==
    /\ peekCursor.type # "none"
    /\ Len(peekTLogs) > 0
    /\ peekCursor.tag.locality = "remoteLog"

\* C23: peekRemote returns an empty cursor, on no server and starting at the
\* begin requested, whenever the current generation has no set with log
\* routers, or an old generation consulted to reach begin has none, or the
\* old generations run out before begin is reached; it returns none of the
\* cursors collected and raises no error.
PeekRemoteDeadIsEmpty ==
    ( PeekRemoteMade /\ PeekRemoteDead(peekCursor.begin) )
    => peekCursor = EmptyCursor(peekCursor.tag, peekCursor.begin)

\* C23 witness: the current generation has log routers, whose cursor was
\* collected, the old generation consulted has none, and the cursor returned
\* is empty.
PeekRemoteDeadIsEmptyWitness ==
    /\ PeekRemoteMade
    /\ RouterSets(peekTLogs) # {}
    /\ Len(peekOldLogData) >= 1
    /\ PeekRemoteConsults(1, peekCursor.begin)
    /\ RouterSets(peekOldLogData[1].tLogs) = {}
    /\ peekCursor = EmptyCursor(peekCursor.tag, peekCursor.begin)

----------------------------------------------------------------------------
(* recruitOldLogRouters, called by newEpoch on oldLogSystem for the        *)
(* primary locality and by newRemoteEpoch on the new LogSystem for the     *)
(* remote locality. The generations of the two LogSystems are vectors of   *)
(* their own that hold references to the same LogSets.                     *)

\* A recovery sees at most MaxRouterOld old generations of oldLogSystem.
MaxRouterOld == 1

RouterLocalities == { "dcA", "dcB" }

\* The sets of one generation that starts at version start: a local set of
\* one locality and, with a remote region, a set of the other that is not
\* local; logRouterTags is set with a remote region only (lines 1618-1623).
RouterGenerationShapes(start) ==
    { [sets |-> << [locality |-> loc, isLocal |-> TRUE, startVersion |-> start,
                    logRouters |-> 0] >>
                \o (IF remote
                    THEN << [locality |-> CHOOSE l \in RouterLocalities : l # loc,
                             isLocal |-> FALSE, startVersion |-> start,
                             logRouters |-> 0] >>
                    ELSE << >>),
        logRouterTags |-> IF remote THEN 1 ELSE 0] :
        loc \in RouterLocalities, remote \in BOOLEAN }

\* Generation i of a LogSystem: 0 is the current one.
RouterGeneration(sys, i) ==
    IF i = 0 THEN [tLogs |-> sys.tLogs, logRouterTags |-> sys.logRouterTags]
    ELSE sys.oldLogData[i]

RouterWithSets(sys, i, ids) ==
    IF i = 0 THEN [sys EXCEPT !.tLogs = ids]
    ELSE [sys EXCEPT !.oldLogData[i].tLogs = ids]

\* maxStart: the largest startVersion of the local sets of a generation.
RouterMaxStart(pool, gen) ==
    SetMax({ 0 } \cup { pool[gen.tLogs[t]].startVersion :
                          t \in { u \in DOMAIN gen.tLogs : pool[gen.tLogs[u]].isLocal } })

\* The loops of recruitOldLogRouters stop at old generation i.
RecruitOldBreaks(pool, gen, i, lastStart) ==
    i > 0 /\ ( gen.logRouterTags = 0 \/ RouterMaxStart(pool, gen) >= lastStart )

\* The sets of a generation that get log routers.
RecruitOldTargets(pool, gen, locality) ==
    { gen.tLogs[t] : t \in { u \in DOMAIN gen.tLogs : pool[gen.tLogs[u]].locality = locality } }

\* for (auto& tLogs : ...) if (tLogs->locality == locality): the sets of the
\* locality among ids, in their order.
RECURSIVE RecruitOldTargetSeq(_, _, _)
RecruitOldTargetSeq(pool, ids, locality) ==
    IF ids = << >> THEN << >>
    ELSE (IF pool[Head(ids)].locality = locality THEN << Head(ids) >> ELSE << >>)
         \o RecruitOldTargetSeq(pool, Tail(ids), locality)

\* The first half of recruitOldLogRouters from generation i on, up to the
\* wait for the replies: the log routers of the sets of every generation
\* visited are cleared, and a set of the locality is added where there is
\* none. newIsLocal is isLocal of a LogSet as its constructor leaves it.
\* groups is logRouterInitializationReplies: per set of the locality
\* visited, the generation, the set and the number of routers asked for.
RECURSIVE RecruitOldRequests(_, _, _, _, _, _, _)
RecruitOldRequests(sys, pool, i, lastStart, locality, startVersion, newIsLocal) ==
    IF i > Len(sys.oldLogData) THEN [sys |-> sys, pool |-> pool, groups |-> << >>]
    ELSE LET gen == RouterGeneration(sys, i)
             ls == Max(startVersion, RouterMaxStart(pool, gen))
             found == RecruitOldTargets(pool, gen, locality) # {}
             ids == { gen.tLogs[t] : t \in DOMAIN gen.tLogs }
             cleared == [id \in DOMAIN pool |->
                           IF id \in ids THEN [pool[id] EXCEPT !.logRouters = 0]
                           ELSE pool[id]]
             pool2 == IF found THEN cleared
                      ELSE Append(cleared,
                                  [locality |-> locality,
                                   isLocal |-> IF i = 0 THEN FALSE ELSE newIsLocal,
                                   startVersion |-> ls, logRouters |-> 0])
             sys2 == IF found THEN sys
                     ELSE RouterWithSets(sys, i, Append(gen.tLogs, Len(pool2)))
             targets == RecruitOldTargetSeq(pool2, RouterGeneration(sys2, i).tLogs, locality)
             rest == RecruitOldRequests(sys2, pool2, i + 1, ls, locality, startVersion,
                                        newIsLocal)
         IN  IF RecruitOldBreaks(pool, gen, i, lastStart)
             THEN [sys |-> sys, pool |-> pool, groups |-> << >>]
             ELSE [sys |-> rest.sys, pool |-> rest.pool,
                   groups |-> [ k \in DOMAIN targets |->
                                  [gen |-> i, set |-> targets[k],
                                   size |-> gen.logRouterTags] ]
                              \o rest.groups]

\* The inner loop of the second half over the sets of the locality of one
\* generation: set number k of targets gets the routers of
\* logRouterInitializationReplies[nextReplies + k - 1].
RECURSIVE RecruitOldInstall(_, _, _, _, _)
RecruitOldInstall(pool, targets, groups, nextReplies, i) ==
    IF targets = << >> THEN [pool |-> pool, installed |-> << >>]
    ELSE LET size == IF nextReplies + 1 \in DOMAIN groups
                     THEN groups[nextReplies + 1].size ELSE 0
             rest == RecruitOldInstall(
                         [pool EXCEPT ![Head(targets)].logRouters = @ + size],
                         Tail(targets), groups, nextReplies + 1, i)
         IN  [pool |-> rest.pool,
              installed |-> << [gen |-> i, set |-> Head(targets), size |-> size] >>
                            \o rest.installed]

\* The second half, after the replies: the sets of the locality of every
\* generation visited get the log routers of the next group of replies.
\* installed names, per group taken, the generation and the set it went to.
RECURSIVE RecruitOldReplies(_, _, _, _, _, _, _, _)
RecruitOldReplies(sys, pool, i, lastStart, locality, startVersion, groups, nextReplies) ==
    IF i > Len(sys.oldLogData) THEN [pool |-> pool, installed |-> << >>]
    ELSE LET gen == RouterGeneration(sys, i)
             ls == Max(startVersion, RouterMaxStart(pool, gen))
             targets == RecruitOldTargetSeq(pool, gen.tLogs, locality)
             here == RecruitOldInstall(pool, targets, groups, nextReplies, i)
             rest == RecruitOldReplies(sys, here.pool, i + 1, ls, locality, startVersion,
                                       groups, nextReplies + Len(targets))
         IN  IF RecruitOldBreaks(pool, gen, i, lastStart)
             THEN [pool |-> pool, installed |-> << >>]
             ELSE [pool |-> rest.pool, installed |-> here.installed \o rest.installed]

\* newEpoch, lines 1662-1668: recruitOldLogRouters on oldLogSystem for the
\* primary locality when the new primary set starts below
\* knownCommittedVersion + 1; it runs up to its wait for the replies.
RecruitOldPrimaryStarts(newIsLocal) ==
    /\ routerPc.primary = "idle"
    /\ IF routerArgs.primaryStart < routerArgs.knownCommittedVersion + 1
       THEN IF routerOld.logRouterTags = 0
            THEN /\ routerPc' = [routerPc EXCEPT !.primary = "returned"]
                 /\ UNCHANGED << routerSets, routerOld >>
            ELSE LET r == RecruitOldRequests(routerOld, routerSets, 0, VersionLimit,
                                             routerArgs.primaryLocality,
                                             routerArgs.primaryStart, newIsLocal)
                 IN  /\ routerSets' = r.pool
                     /\ routerOld' = r.sys
                     /\ routerPc' = [routerPc EXCEPT !.primary = "waiting",
                                                     !.primaryReplies = r.groups]
       ELSE /\ routerPc' = [routerPc EXCEPT !.primary = "not called"]
            /\ UNCHANGED << routerSets, routerOld >>
    /\ UNCHANGED << routerNew, routerArgs >>
    /\ UNCHANGED notRouter

\* newRemoteEpoch, lines 1523-1526, called by newEpoch at line 1779.
RecruitOldRemoteStarts(newIsLocal) ==
    /\ routerPc.primary # "idle"
    /\ routerPc.remote = "idle"
    /\ routerArgs.remoteLocality # "none"
    /\ IF routerArgs.remoteStart < routerArgs.knownCommittedVersion + 1
       THEN LET r == RecruitOldRequests(routerNew, routerSets, 1, VersionLimit,
                                        routerArgs.remoteLocality,
                                        routerArgs.remoteStart, newIsLocal)
            IN  /\ routerSets' = r.pool
                /\ routerNew' = r.sys
                /\ routerPc' = [routerPc EXCEPT !.remote = "waiting",
                                                !.remoteReplies = r.groups]
       ELSE /\ routerPc' = [routerPc EXCEPT !.remote = "not called"]
            /\ UNCHANGED << routerSets, routerNew >>
    /\ UNCHANGED << routerOld, routerArgs >>
    /\ UNCHANGED notRouter

\* The replies of the log routers recruited for the primary locality are
\* all there: lines 1431-1485.
RecruitOldPrimaryReplies ==
    /\ routerPc.primary = "waiting"
    /\ LET r == RecruitOldReplies(routerOld, routerSets, 0, VersionLimit,
                                  routerArgs.primaryLocality, routerArgs.primaryStart,
                                  routerPc.primaryReplies, 0)
       IN  /\ routerSets' = r.pool
           /\ routerPc' = [routerPc EXCEPT !.primary = "done",
                                           !.primaryInstalled = r.installed]
    /\ UNCHANGED << routerOld, routerNew, routerArgs >>
    /\ UNCHANGED notRouter

\* The same for the remote locality: lines 1431-1487 with forRemote.
RecruitOldRemoteReplies ==
    /\ routerPc.remote = "waiting"
    /\ LET r == RecruitOldReplies(routerNew, routerSets, 1, VersionLimit,
                                  routerArgs.remoteLocality, routerArgs.remoteStart,
                                  routerPc.remoteReplies, 0)
       IN  /\ routerSets' = r.pool
           /\ routerPc' = [routerPc EXCEPT !.remote = "done",
                                           !.remoteInstalled = r.installed]
    /\ UNCHANGED << routerOld, routerNew, routerArgs >>
    /\ UNCHANGED notRouter

\* newRemoteEpoch, lines 1563-1583: after the old router recruitment, the
\* remote set gets its log routers and joins tLogs.
NewRemoteEpochCompletes ==
    /\ routerPc.remote \in { "done", "not called" }
    /\ routerPc.remoteEpoch = "running"
    /\ routerSets' = Append(routerSets,
                            [locality |-> routerArgs.remoteLocality, isLocal |-> FALSE,
                             startVersion |-> routerArgs.remoteStart,
                             logRouters |-> routerNew.logRouterTags])
    /\ routerNew' = [routerNew EXCEPT !.tLogs = Append(@, Len(routerSets'))]
    /\ routerPc' = [routerPc EXCEPT !.remoteEpoch = "done"]
    /\ UNCHANGED << routerOld, routerArgs >>
    /\ UNCHANGED notRouter

\* The positions in the pool of the sets of the generations gens, laid out
\* one generation after the other.
RECURSIVE RouterLayout(_, _)
RouterLayout(gens, from) ==
    IF gens = << >> THEN << >>
    ELSE << [tLogs |-> [t \in DOMAIN Head(gens).sets |-> from + t],
             logRouterTags |-> Head(gens).logRouterTags] >>
         \o RouterLayout(Tail(gens), from + Len(Head(gens).sets))

RECURSIVE RouterPool(_)
RouterPool(gens) ==
    IF gens = << >> THEN << >> ELSE Head(gens).sets \o RouterPool(Tail(gens))

\* Some set of the generations of the old LogSystem has the locality, and
\* the first that has, the generations taken from the current one on, is not
\* a local set of the current generation: what lets newEpoch lower the
\* start version of the primary set (lines 1638-1654).
RouterPrimaryRefines(gens, locality) ==
    /\ \E g \in DOMAIN gens : \E t \in DOMAIN gens[g].sets :
          gens[g].sets[t].locality = locality
    /\ \A t \in DOMAIN gens[1].sets :
          gens[1].sets[t].locality = locality => ~ gens[1].sets[t].isLocal

\* Neither recruitOldLogRouters was called and newRemoteEpoch runs; the
\* replies and what was installed of them are those of the two calls.
RouterStart ==
    [primary |-> "idle", remote |-> "idle", remoteEpoch |-> "running",
     primaryReplies |-> << >>, remoteReplies |-> << >>,
     primaryInstalled |-> << >>, remoteInstalled |-> << >>]

\* newEpoch up to line 1661 on an oldLogSystem as epochEnd made it, whose
\* sets have no log routers: the new LogSystem has its primary set and, as
\* old generations, those of oldLogSystem.
RouterInit ==
    /\ Idle({ "router" })
    /\ \E n \in 0 .. MaxRouterOld, kcv \in MaxRouterOld + 1 .. MaxRouterOld + 2,
          primaryLocality \in RouterLocalities, remote \in BOOLEAN :
       \E gens \in [1 .. n + 1 -> UNION { RouterGenerationShapes(v) : v \in 1 .. MaxRouterOld + 1 }],
          primaryStart \in 1 .. kcv + 1, remoteStart \in 1 .. kcv + 1 :
          LET layout == RouterLayout(gens, 0)
              remoteLocality == IF remote
                                THEN CHOOSE l \in RouterLocalities : l # primaryLocality
                                ELSE "none"
          IN  /\ \A g \in 1 .. n : gens[g].sets[1].startVersion > gens[g + 1].sets[1].startVersion
              /\ primaryStart < kcv + 1 => RouterPrimaryRefines(gens, primaryLocality)
              /\ remoteStart < kcv + 1 =>
                    \E g \in DOMAIN gens : \E t \in DOMAIN gens[g].sets :
                       gens[g].sets[t].locality = remoteLocality
              /\ routerSets = Append(RouterPool(gens),
                                     [locality |-> primaryLocality, isLocal |-> TRUE,
                                      startVersion |-> primaryStart, logRouters |-> 0])
              /\ routerOld = [tLogs |-> layout[1].tLogs,
                              logRouterTags |-> layout[1].logRouterTags,
                              oldLogData |-> Tail(layout)]
              /\ routerNew = [tLogs |-> << Len(routerSets) >>,
                              logRouterTags |-> IF remote THEN 1 ELSE 0,
                              oldLogData |-> layout]
              /\ routerArgs = [primaryLocality |-> primaryLocality,
                               remoteLocality |-> remoteLocality,
                               knownCommittedVersion |-> kcv,
                               primaryStart |-> primaryStart,
                               remoteStart |-> remoteStart]
    /\ routerPc = RouterStart

RouterNext ==
    \/ \E newIsLocal \in BOOLEAN : RecruitOldPrimaryStarts(newIsLocal)
    \/ \E newIsLocal \in BOOLEAN : RecruitOldRemoteStarts(newIsLocal)
    \/ RecruitOldPrimaryReplies
    \/ RecruitOldRemoteReplies
    \/ NewRemoteEpochCompletes

RouterSpec == RouterInit /\ [][RouterNext]_vars

\* The sets of generation i of a LogSystem that have log routers.
RouterSetsWithRouters(sys, i) ==
    { t \in DOMAIN RouterGeneration(sys, i).tLogs :
        routerSets[RouterGeneration(sys, i).tLogs[t]].logRouters > 0 }

\* C24: in every reachable state each generation, the current tLogs and
\* every entry of oldLogData, of oldLogSystem and of the new LogSystem has
\* at most one LogSet with log routers, also while the recruitments of old
\* log routers for the primary and for the remote locality run interleaved.
OneRouterSetPerGeneration ==
    \A sys \in { routerOld, routerNew } :
       \A i \in 0 .. Len(sys.oldLogData) :
          Cardinality(RouterSetsWithRouters(sys, i)) <= 1

\* Apart from the states in which both recruitments have got their
\* replies, each generation has at most one set with log routers.
OneRouterSetUnlessBothRecruited ==
    ( routerPc.primary = "done" /\ routerPc.remote = "done" )
    \/ OneRouterSetPerGeneration

----------------------------------------------------------------------------
(* recruitOldLogRouters: the walk that asks for log routers and the walk    *)
(* that installs them, on generations of changing remote localities         *)

RouterWalkLocalities == { "dcA", "dcB", "dcC" }

\* The sets of one generation that starts at version start: a local set of
\* one locality and, with a remote region, a set of another locality that
\* is not local; the remote region differs from generation to generation.
RouterWalkShapes(start) ==
    { [sets |-> << [locality |-> loc, isLocal |-> TRUE, startVersion |-> start,
                    logRouters |-> 0] >>
                \o (IF other # loc
                    THEN << [locality |-> other, isLocal |-> FALSE,
                             startVersion |-> start, logRouters |-> 0] >>
                    ELSE << >>),
        logRouterTags |-> IF other # loc THEN 1 ELSE 0] :
        loc \in RouterWalkLocalities, other \in RouterWalkLocalities }

\* newEpoch up to line 1661, as RouterInit, on an oldLogSystem whose
\* generations have remote regions of any locality.
RouterWalkInit ==
    /\ Idle({ "router" })
    /\ \E n \in 0 .. MaxRouterOld, kcv \in MaxRouterOld + 1 .. MaxRouterOld + 2,
          primaryLocality \in RouterWalkLocalities,
          remoteLocality \in RouterWalkLocalities \cup { "none" } :
       \E gens \in [1 .. n + 1 -> UNION { RouterWalkShapes(v) : v \in 1 .. MaxRouterOld + 1 }],
          primaryStart \in 1 .. kcv + 1, remoteStart \in 1 .. kcv + 1 :
          LET layout == RouterLayout(gens, 0)
          IN  /\ remoteLocality # primaryLocality
              /\ \A g \in 1 .. n : gens[g].sets[1].startVersion > gens[g + 1].sets[1].startVersion
              /\ primaryStart < kcv + 1 => RouterPrimaryRefines(gens, primaryLocality)
              /\ remoteStart < kcv + 1 =>
                    \E g \in DOMAIN gens : \E t \in DOMAIN gens[g].sets :
                       gens[g].sets[t].locality = remoteLocality
              /\ routerSets = Append(RouterPool(gens),
                                     [locality |-> primaryLocality, isLocal |-> TRUE,
                                      startVersion |-> primaryStart, logRouters |-> 0])
              /\ routerOld = [tLogs |-> layout[1].tLogs,
                              logRouterTags |-> layout[1].logRouterTags,
                              oldLogData |-> Tail(layout)]
              /\ routerNew = [tLogs |-> << Len(routerSets) >>,
                              logRouterTags |-> IF remoteLocality # "none" THEN 1 ELSE 0,
                              oldLogData |-> layout]
              /\ routerArgs = [primaryLocality |-> primaryLocality,
                               remoteLocality |-> remoteLocality,
                               knownCommittedVersion |-> kcv,
                               primaryStart |-> primaryStart,
                               remoteStart |-> remoteStart]
    /\ routerPc = RouterStart

RouterWalkSpec == RouterWalkInit /\ [][RouterNext]_vars

\* C31: in recruitOldLogRouters the walk that installs the replies visits
\* the same (generation, set) pairs in the same order as the walk that asked
\* for them, so every group of replies is installed into the set it was
\* asked for and every log router recruited is in a logRouters list, also
\* when the first walk added a LogSet of the locality.
RecruitOldWalksAgree ==
    /\ routerPc.primary = "done" => routerPc.primaryInstalled = routerPc.primaryReplies
    /\ routerPc.remote = "done" => routerPc.remoteInstalled = routerPc.remoteReplies

\* An old generation holds a set, added by the first walk, that is local.
RecruitOldAddedLocal ==
    \E sys \in { routerOld, routerNew } : \E i \in DOMAIN sys.oldLogData :
       \E t \in DOMAIN sys.oldLogData[i].tLogs :
          t >= 2 /\ routerSets[sys.oldLogData[i].tLogs[t]].isLocal

\* The two walks agree unless the first walk added to an old generation a
\* LogSet that its constructor left local.
RecruitOldWalksAgreeUnlessAddedLocal == RecruitOldAddedLocal \/ RecruitOldWalksAgree

----------------------------------------------------------------------------
(* peekSingle with a history of the tags a server had before.              *)

\* A history holds at most MaxHistory entries.
MaxHistory == 2

\* The histories of a server, newest first: the versions, pushed ones, at
\* which its tag changed, each with the tag it had before.
RECURSIVE PeekHistories(_, _)
PeekHistories(n, below) ==
    IF n = 0 THEN { << >> }
    ELSE { << >> } \cup
         UNION { { << [version |-> v, tag |-> t] >> \o h : h \in PeekHistories(n - 1, v) } :
                 v \in 1 .. below - 1, t \in { PrimaryTag, TxsTag } }

\* peekSingle, had it kept the entries of the history at or below begin.
PeekSingleKeptAll(begin, history) == history

\* The history after the loop that drops the entries at its back whose
\* version begin has reached.
RECURSIVE PeekSingleKept(_, _)
PeekSingleKept(begin, history) ==
    IF Len(history) > 0 /\ begin >= history[Len(history)].version
    THEN PeekSingleKept(begin, SubSeq(history, 1, Len(history) - 1))
    ELSE history

\* The calls of peekLocal that peekSingle makes, in the order of its
\* cursors: tag, begin and end of each.
PeekSingleSpans(begin, tag, history) ==
    IF Len(history) = 0
    THEN << [tag |-> tag, begin |-> begin, end |-> GetPeekEnd] >>
    ELSE << [tag |-> tag, begin |-> history[1].version, end |-> GetPeekEnd] >>
         \o [i \in DOMAIN history |->
               [tag |-> history[i].tag,
                begin |-> IF i + 1 = Len(history) + 1 THEN begin
                          ELSE Max(history[i + 1].version, begin),
                end |-> history[i].version]]

\* peekSingle(dbgid, begin, tag, history): what it returns or raises.
PeekSingleCursor(begin, tag, history) ==
    LET kept == PeekSingleKept(begin, history)
        spans == PeekSingleSpans(begin, tag, kept)
        cursors == [k \in DOMAIN spans |->
                      PeekLocalCursor(spans[k].tag, spans[k].begin, spans[k].end)]
    IN  IF Len(kept) = 0 THEN cursors[1]
        ELSE IF \E k \in DOMAIN cursors : cursors[k].type = "worker_removed"
        THEN WorkerRemoved(tag, begin)
        ELSE MultiCursor(cursors, [i \in DOMAIN kept |-> kept[i].version], tag, begin)

PeekSingle(begin, tag, history) ==
    /\ peekSingle = << >>
    /\ Len(peekTLogs) > 0
    /\ peekSingle' = [begin |-> begin, tag |-> tag, history |-> history,
                      spans |-> PeekSingleSpans(begin, tag,
                                                PeekSingleKept(begin, history)),
                      cursor |-> PeekSingleCursor(begin, tag, history)]
    /\ UNCHANGED << peekTLogs, peekOldLogData, peekEpochEnd, peekPushed, peekCursor,
                    peekLocalCursor >>
    /\ UNCHANGED notPeek

\* The versions pushed are 1 .. MaxHistoryVersion.
MaxHistoryVersion == 2

\* A LogSystem with one local set, which starts at version 1 or has an old
\* generation below it, running or stopped by epochEnd after the last
\* version pushed.
PeekSingleInit ==
    /\ Idle({ "peek" })
    /\ \E start \in 1 .. 2, loc \in { "primary", "special" }, old \in BOOLEAN :
          /\ peekTLogs = << PeekSet(TRUE, 2, 0, start, TRUE, loc) >>
          /\ peekOldLogData =
                IF old /\ start > 1
                THEN << [tLogs |-> << PeekSet(TRUE, 2, 0, 1, TRUE, "primary") >>,
                         epochEnd |-> start] >>
                ELSE << >>
    /\ peekEpochEnd \in { NoVersion, SomeVersion(MaxHistoryVersion) }
    /\ peekPushed = [v \in 1 .. MaxHistoryVersion |-> { PrimaryTag, RemoteLogTag }]
    /\ peekCursor = NoCursor
    /\ peekLocalCursor = NoCursor
    /\ peekSingle = << >>

PeekSingleNext ==
    \E begin \in 0 .. MaxHistoryVersion, tag \in { PrimaryTag, TxsTag } :
       \E history \in PeekHistories(MaxHistory, Len(peekPushed) + 1) :
          PeekSingle(begin, tag, history)

PeekSingleSpec == PeekSingleInit /\ [][PeekSingleNext]_vars

\* The entries of the history of the last peekSingle whose version is above
\* its begin.
PeekSingleAbove ==
    SelectSeq(peekSingle.history, LAMBDA e : e.version > peekSingle.begin)

\* C25: peekSingle(begin, tag, history), the history newest first, drops
\* every entry of the history whose version is not above begin and makes
\* one peekLocal for each span of a tag: the current tag from
\* history[0].version to the peek end and the tag of history[i] over
\* [max(history[i+1].version, begin), history[i].version), from begin for
\* the last entry, with the versions of the history as boundaries; the
\* spans follow each other and cover [begin, peek end) once.
PeekSingleCovers ==
    peekSingle # << >> =>
       LET kept == PeekSingleAbove
           spans == peekSingle.spans
           n == Len(kept)
       IN  /\ Len(spans) = n + 1
           /\ spans[1].tag = peekSingle.tag
           /\ spans[1].end = GetPeekEnd
           /\ spans[1].begin = IF n = 0 THEN peekSingle.begin ELSE kept[1].version
           /\ \A i \in 1 .. n :
                 /\ spans[i + 1].tag = kept[i].tag
                 /\ spans[i + 1].end = kept[i].version
                 /\ spans[i + 1].begin = IF i = n THEN peekSingle.begin
                                         ELSE Max(kept[i + 1].version, peekSingle.begin)
                 /\ spans[i + 1].begin < spans[i + 1].end
                 /\ spans[i + 1].end = spans[i].begin
           /\ spans[n + 1].begin = peekSingle.begin
           /\ n > 0 => spans[1].begin < spans[1].end
           /\ peekSingle.cursor.type = "MultiCursor" /\ n > 0
                 => /\ peekSingle.cursor.epochEnds = [i \in 1 .. n |-> kept[i].version]
                    /\ Len(peekSingle.cursor.cursors) = n + 1
                    /\ \A k \in 1 .. n + 1 :
                          peekSingle.cursor.cursors[k] =
                             PeekLocalCursor(spans[k].tag, spans[k].begin, spans[k].end)

\* C25 witness: a peekSingle whose history has an entry above begin and
\* returned a MultiCursor of the cursor of the current tag and that of the
\* tag before.
PeekSingleCoversWitness ==
    /\ peekSingle # << >>
    /\ Len(peekSingle.history) >= 1
    /\ Len(PeekSingleAbove) >= 1
    /\ peekSingle.cursor.type = "MultiCursor"
    /\ Len(peekSingle.cursor.cursors) = Len(PeekSingleAbove) + 1
    /\ peekSingle.history[1].tag # peekSingle.tag
----------------------------------------------------------------------------
(* newEpoch: the generations and the start version of the new system        *)

\* The old system has at most MaxSeedGenerations old generations.
MaxSeedGenerations == 1

SeedLocalities == { "dcA", "dcB" }

\* The versions of the old system and of its durable versions.
SeedVersions == 0 .. 2

SeedSet(g, j, locality, isLocal) ==
    [locality |-> locality, isLocal |-> isLocal, logServers |-> << << g, j, 1 >> >>]

\* The sets of a current generation: one set, or two of different localities.
SeedCurrentSets ==
    { << SeedSet(0, 1, a, al) >> : a \in SeedLocalities, al \in BOOLEAN }
    \cup { << SeedSet(0, 1, ab[1], al), SeedSet(0, 2, ab[2], bl) >> :
             ab \in { x \in SeedLocalities \X SeedLocalities : x[1] # x[2] },
             al \in BOOLEAN, bl \in BOOLEAN }

\* n old generations of one set each that ended at or below the version kcv,
\* the newest first.
SeedOldGenerations(n, kcv) ==
    { [ g \in 1 .. n |->
          [tLogs |-> << SeedSet(g, 1, shape[g][1], shape[g][2]) >>,
           epochEnd |-> ends[g], logRouterTags |-> g] ] :
        shape \in [ 1 .. n -> SeedLocalities \X BOOLEAN ],
        ends \in { e \in [ 1 .. n -> 1 .. kcv ] :
                     \A g \in 1 .. n : g < n => e[g] > e[g + 1] } }

\* The old log system of a brand new database, as epochEnd makes it.
SeedBrandNew ==
    [tLogs |-> << >>, oldLogData |-> << >>, knownCommittedVersion |-> 0,
     logRouterTags |-> 0, lockResults |-> << >>]

\* The old log systems epochEnd hands to newEpoch.
SeedOldSystems ==
    { SeedBrandNew }
    \cup UNION { { [tLogs |-> sets, oldLogData |-> olds, knownCommittedVersion |-> kcv,
                    logRouterTags |-> tags,
                    lockResults |-> EpochEndLockResults([tLogs |-> sets,
                                                         oldTLogData |-> olds])] :
                     sets \in SeedCurrentSets, tags \in 0 .. 1,
                     olds \in UNION { SeedOldGenerations(n, kcv) :
                                        n \in 0 .. MaxSeedGenerations } } :
                  kcv \in SeedVersions \ { 0 } }

\* An old system whose own generation is put behind its old generations.
NewEpochOldLogDataAppends(old) ==
    IF Len(old.tLogs) > 0
    THEN old.oldLogData
         \o << [tLogs |-> old.tLogs, epochEnd |-> old.knownCommittedVersion + 1,
                logRouterTags |-> old.logRouterTags] >>
    ELSE old.oldLogData

\* oldLogData of the new system: the generation of the old system, when it
\* has sets, and then the old generations of the old system.
NewEpochOldLogData(old) ==
    IF Len(old.tLogs) > 0
    THEN << [tLogs |-> old.tLogs, epochEnd |-> old.knownCommittedVersion + 1,
             logRouterTags |-> old.logRouterTags] >>
         \o old.oldLogData
    ELSE old.oldLogData

\* where the while loop over lockResults stops: the first lock result of the
\* locality, 0 when the loop runs off the end.
NewEpochLockNum(old, primaryLocality) ==
    LET M == { n \in DOMAIN old.lockResults :
                 old.lockResults[n].logSet.locality = primaryLocality }
    IN  IF M = {} THEN 0 ELSE SetMin(M)

\* A break on every current lock result, local or not.
NewEpochBreaksOnCurrent(lock) == lock.isCurrent

\* if (lockResults[lockNum].isCurrent && lockResults[lockNum].logSet->isLocal) break;
NewEpochBreaks(lock) == lock.isCurrent /\ lock.logSet.isLocal

\* The start version of the primary set as the loop leaves it, or the wait
\* for getDurableVersionChanged it stops at; durable is what
\* getDurableVersion answers on each lock result.
NewEpochStartVersion(old, lockNum, durable, startVersion) ==
    IF lockNum = 0 \/ NewEpochBreaks(old.lockResults[lockNum])
    THEN [ready |-> TRUE, startVersion |-> startVersion, versions |-> NoVersions]
    ELSE IF durable[lockNum].present
    THEN [ready |-> TRUE,
          startVersion |-> RefinedStartVersion(durable[lockNum],
                                               old.lockResults[lockNum].epochEnd,
                                               startVersion),
          versions |-> durable[lockNum]]
    ELSE [ready |-> FALSE, startVersion |-> startVersion, versions |-> NoVersions]

\* newEpoch up to the recruitment of the old log routers, or up to its wait
\* for the durable version of the lock result of the primary locality.
NewEpochSeeds(primaryLocality) ==
    /\ seedPc = "start"
    /\ LET lockNum == NewEpochLockNum(seedOld, primaryLocality)
           r == NewEpochStartVersion(seedOld, lockNum, seedDurable,
                                     seedOld.knownCommittedVersion + 1)
       IN  /\ seedNew' = [tLogs |-> << NewLogSet(primaryLocality, TRUE,
                                                 r.startVersion, r.versions) >>,
                          oldLogData |-> NewEpochOldLogData(seedOld),
                          lockNum |-> lockNum]
           /\ seedPc' = IF r.ready THEN "done" ELSE "wait"
    /\ UNCHANGED << seedOld, seedDurable >>
    /\ UNCHANGED notSeed

\* newEpoch after getDurableVersionChanged, with a durable version.
NewEpochRefines ==
    /\ seedPc = "wait"
    /\ seedDurable[seedNew.lockNum].present
    /\ LET r == NewEpochStartVersion(seedOld, seedNew.lockNum, seedDurable,
                                     seedNew.tLogs[1].startVersion)
       IN  seedNew' = [seedNew EXCEPT !.tLogs[1].startVersion = r.startVersion,
                                      !.tLogs[1].versions = r.versions]
    /\ seedPc' = "done"
    /\ UNCHANGED << seedOld, seedDurable >>
    /\ UNCHANGED notSeed

\* Lock replies arrive: getDurableVersion answers (first, second) on the lock
\* result n from now on.
SeedDurableVersionChanges(n, first, second) ==
    /\ seedPc \in { "start", "wait" }
    /\ first <= second
    /\ seedDurable[n] # [present |-> TRUE, first |-> first, second |-> second]
    /\ seedDurable' = [seedDurable EXCEPT
                         ![n] = [present |-> TRUE, first |-> first, second |-> second]]
    /\ UNCHANGED << seedOld, seedNew, seedPc >>
    /\ UNCHANGED notSeed

SeedInit ==
    /\ Idle({ "seed" })
    /\ seedOld \in SeedOldSystems
    /\ seedDurable = [ n \in DOMAIN seedOld.lockResults |-> NoVersions ]
    /\ seedNew = << >>
    /\ seedPc = "start"

SeedNext ==
    \/ \E primaryLocality \in SeedLocalities : NewEpochSeeds(primaryLocality)
    \/ NewEpochRefines
    \/ \E n \in DOMAIN seedDurable, first \in SeedVersions, second \in SeedVersions :
          SeedDurableVersionChanges(n, first, second)

SeedSpec == SeedInit /\ [][SeedNext]_vars

\* The generation newEpoch makes of the old system.
SeedOldGeneration ==
    [tLogs |-> seedOld.tLogs, epochEnd |-> seedOld.knownCommittedVersion + 1,
     logRouterTags |-> seedOld.logRouterTags]

\* oldLogData of the new system is the generation of the old system and then
\* the old generations of the old system, in their order.
SeedPrepended ==
    /\ Len(seedNew.oldLogData) = Len(seedOld.oldLogData) + 1
    /\ seedNew.oldLogData[1] = SeedOldGeneration
    /\ \A i \in DOMAIN seedOld.oldLogData :
          seedNew.oldLogData[i + 1] = seedOld.oldLogData[i]

SeedNewestFirst ==
    \A i \in DOMAIN seedNew.oldLogData, j \in DOMAIN seedNew.oldLogData :
        i < j => seedNew.oldLogData[i].epochEnd >= seedNew.oldLogData[j].epochEnd

\* C26: when the old system has log sets, newEpoch makes oldLogData of the
\* new system the generation (old.tLogs, old.knownCommittedVersion + 1,
\* old.logRouterTags) followed by old.oldLogData in unchanged order, one
\* generation more than the old system has; when the old system has no log
\* sets (a brand new database), oldLogData of the new system is
\* old.oldLogData and no generation is added.  The generations are ordered
\* newest first either way.
NewEpochSeedsGenerations ==
    seedNew # << >> =>
        /\ IF Len(seedOld.tLogs) > 0
           THEN SeedPrepended
           ELSE seedNew.oldLogData = seedOld.oldLogData
        /\ SeedNewestFirst

\* C26 witness: newEpoch ran on an old system with sets and one old
\* generation, and the new system has two generations.
NewEpochSeedsGenerationsWitness ==
    /\ seedNew # << >>
    /\ Len(seedOld.tLogs) > 0
    /\ Len(seedOld.oldLogData) = 1
    /\ Len(seedNew.oldLogData) = 2

\* C26 as stated: the new system always has exactly one more generation than
\* the old system, the first being the generation of the old system.
NewEpochAlwaysOneMore ==
    seedNew # << >> => SeedPrepended /\ SeedNewestFirst

\* The lock results of the old system on sets of the locality of the new
\* primary set.
SeedPrimaryLocks ==
    { n \in DOMAIN seedOld.lockResults :
        seedOld.lockResults[n].logSet.locality = seedNew'.tLogs[1].locality }

\* The first of them.
SeedFirstPrimaryLock ==
    CHOOSE n \in SeedPrimaryLocks : \A m \in SeedPrimaryLocks : n <= m

\* A step of newEpoch on the start version of the primary set.
SeedStartVersionStep ==
    LET set == seedNew'.tLogs[1]
        kcv == seedOld.knownCommittedVersion
        lock == seedOld.lockResults[SeedFirstPrimaryLock]
        versions == seedDurable[SeedFirstPrimaryLock]
    IN  IF \/ SeedPrimaryLocks = {}
           \/ lock.isCurrent /\ lock.logSet.isLocal
        THEN seedPc' = "done" /\ set.startVersion = kcv + 1
        ELSE IF versions.present
        THEN /\ seedPc' = "done"
             /\ set.startVersion = Min(versions.first + 1, Min(lock.epochEnd, kcv + 1))
        ELSE seedPc' = "wait" /\ set.startVersion = kcv + 1

\* C27: the start version of the new primary set is
\* old.knownCommittedVersion + 1 when the old system has no lock result of
\* the primary locality or the first such lock result is current and local;
\* otherwise newEpoch waits while getDurableVersion has no answer on that
\* lock result and, with the answer (kcv, end), makes the start version
\* min(kcv + 1, the epochEnd of the lock result, old.knownCommittedVersion + 1),
\* after which it is not changed.
NewEpochStartVersionRefined ==
    [][ /\ seedNew' # seedNew => SeedStartVersionStep
        /\ seedPc = "done" => seedNew' = seedNew ]_vars

\* C27 witness: newEpoch waited on a lock result of an old generation and
\* then made its epochEnd the start version, below both kcv + 1 and
\* old.knownCommittedVersion + 1.
NewEpochStartVersionRefinedWitness ==
    /\ seedPc = "done"
    /\ seedNew.lockNum > 0
    /\ ~ seedOld.lockResults[seedNew.lockNum].isCurrent
    /\ seedNew.tLogs[1].versions.present
    /\ seedNew.tLogs[1].startVersion = seedOld.lockResults[seedNew.lockNum].epochEnd
    /\ seedNew.tLogs[1].startVersion < seedNew.tLogs[1].versions.first + 1
    /\ seedNew.tLogs[1].startVersion < seedOld.knownCommittedVersion + 1

----------------------------------------------------------------------------
(* trackRejoins and the acknowledgements of the rejoin requests             *)

\* At most MaxRejoins rejoin requests are sent.
MaxRejoins == 3

\* The ids of the handles trackRejoins is started with, and the ids of all
\* servers that send rejoin requests.
RejoinKnownIds == { 1, 2 }

RejoinIds == { 1, 2, 3 }

RejoinEndpoints == { "a", "b" }

\* for (i ...) if (logServers[i]->get().id() == req.myInterface.id()) { pos = i; break; }
\* 0 stands for -1.
RejoinPos(handles, id) ==
    LET M == { i \in DOMAIN handles : handles[i].id = id }
    IN  IF M = {} THEN 0 ELSE SetMin(M)

\* The handle after a rejoin request with the endpoint: set when it held no
\* interface or one of another commit endpoint.
RejoinHandle(handle, endpoint) ==
    IF ~ handle.present \/ endpoint # handle.endpoint
    THEN [handle EXCEPT !.present = TRUE, !.endpoint = endpoint]
    ELSE handle

\* A request of a known id that is answered false as it is taken.
RejoinKnownRepliesAtOnce(requests, lastReply, r) ==
    [requests EXCEPT ![r].ack = "false"]

\* lastReply[id].send(false) on a request r of a known id: the reply held
\* for the id, if there is one, is answered false; that of r is not answered.
RejoinKnownReplies(requests, lastReply, r) ==
    IF lastReply[requests[r].id] # 0
    THEN [requests EXCEPT ![lastReply[requests[r].id]].ack = "false"]
    ELSE requests

\* A server sends a rejoin request with its interface.
RejoinRequestSent(id, endpoint) ==
    /\ ~ rejoinStopped
    /\ Len(rejoinRequests) < MaxRejoins
    /\ rejoinRequests' = Append(rejoinRequests,
                                [id |-> id, endpoint |-> endpoint, ack |-> "pending"])
    /\ UNCHANGED << rejoinHandles, rejoinNext, rejoinLastReply, rejoinStopped >>
    /\ UNCHANGED notRejoin

\* One round of the loop of trackRejoins: the next request of the stream.
TrackRejoinsTakes ==
    /\ ~ rejoinStopped
    /\ rejoinNext < Len(rejoinRequests)
    /\ LET r == rejoinNext + 1
           req == rejoinRequests[r]
           pos == RejoinPos(rejoinHandles, req.id)
       IN  IF pos # 0
           THEN /\ rejoinHandles' = [rejoinHandles EXCEPT
                                       ![pos] = RejoinHandle(@, req.endpoint)]
                /\ rejoinRequests' = RejoinKnownReplies(rejoinRequests, rejoinLastReply, r)
                /\ rejoinLastReply' = [rejoinLastReply EXCEPT ![req.id] = r]
           ELSE /\ rejoinRequests' = [rejoinRequests EXCEPT ![r].ack = "true"]
                /\ UNCHANGED << rejoinHandles, rejoinLastReply >>
    /\ rejoinNext' = rejoinNext + 1
    /\ UNCHANGED rejoinStopped
    /\ UNCHANGED notRejoin

\* trackRejoins is cancelled: the catch block answers true on every reply
\* lastReply holds.  The requests left in the stream are not answered here.
TrackRejoinsStops ==
    /\ ~ rejoinStopped
    /\ rejoinStopped' = TRUE
    /\ rejoinRequests' =
          [ r \in DOMAIN rejoinRequests |->
              IF \E id \in DOMAIN rejoinLastReply : rejoinLastReply[id] = r
              THEN [rejoinRequests[r] EXCEPT !.ack = "true"]
              ELSE rejoinRequests[r] ]
    /\ UNCHANGED << rejoinHandles, rejoinNext, rejoinLastReply >>
    /\ UNCHANGED notRejoin

\* trackRejoins starts on handles that hold an id and, some of them, an
\* interface.
RejoinInit ==
    /\ Idle({ "rejoin" })
    /\ \E present \in [ RejoinKnownIds -> BOOLEAN ] :
          rejoinHandles = [ i \in 1 .. Cardinality(RejoinKnownIds) |->
                              [id |-> i, present |-> present[i], endpoint |-> "a"] ]
    /\ rejoinRequests = << >>
    /\ rejoinNext = 0
    /\ rejoinLastReply = [ id \in RejoinKnownIds |-> 0 ]
    /\ rejoinStopped = FALSE

RejoinNext ==
    \/ \E id \in RejoinIds, endpoint \in RejoinEndpoints : RejoinRequestSent(id, endpoint)
    \/ TrackRejoinsTakes
    \/ TrackRejoinsStops

RejoinSpec == RejoinInit /\ [][RejoinNext]_vars

\* The requests trackRejoins has taken from the stream.
RejoinTaken == 1 .. rejoinNext

\* The request r is the last one taken of its id.
RejoinIsLastOfId(r) ==
    \A q \in RejoinTaken : rejoinRequests[q].id = rejoinRequests[r].id => q <= r

\* The handle of an id of which requests were taken holds the interface of
\* the last of them.
RejoinHandlesUpdated ==
    \A r \in RejoinTaken :
        rejoinRequests[r].id \in RejoinKnownIds /\ RejoinIsLastOfId(r) =>
            \E i \in DOMAIN rejoinHandles :
                /\ rejoinHandles[i].id = rejoinRequests[r].id
                /\ rejoinHandles[i].present
                /\ rejoinHandles[i].endpoint = rejoinRequests[r].endpoint

\* C28: every rejoin request trackRejoins takes from a server whose id
\* matches a handle updates that handle to the interface of the request, and
\* every request taken from an unknown id is acknowledged true at once.  A
\* request of a known id is acknowledged false when the next request of the
\* same id is taken, not before; the last request taken of a known id stays
\* unanswered while trackRejoins runs and is acknowledged true when
\* trackRejoins stops.
TrackRejoinsAcknowledges ==
    /\ RejoinHandlesUpdated
    /\ \A r \in RejoinTaken :
          rejoinRequests[r].ack =
              IF rejoinRequests[r].id \notin RejoinKnownIds THEN "true"
              ELSE IF ~ RejoinIsLastOfId(r) THEN "false"
              ELSE IF rejoinStopped THEN "true"
              ELSE "pending"

\* C28 witness: trackRejoins has stopped after two requests of the server 1,
\* on different endpoints, and one of the unknown server 3; the first is
\* acknowledged false, the other two true.
TrackRejoinsAcknowledgesWitness ==
    /\ rejoinStopped
    /\ rejoinNext = 3
    /\ \E r \in RejoinTaken, q \in RejoinTaken, u \in RejoinTaken :
          /\ r < q
          /\ rejoinRequests[r].id = 1 /\ rejoinRequests[q].id = 1
          /\ rejoinRequests[r].endpoint # rejoinRequests[q].endpoint
          /\ rejoinRequests[u].id = 3
          /\ rejoinRequests[r].ack = "false"
          /\ rejoinRequests[q].ack = "true"
          /\ rejoinRequests[u].ack = "true"

\* C28 as stated: once trackRejoins has stopped, every request it took from a
\* known id has been acknowledged false, the last one of the id included,
\* and every request it took from an unknown id true.
TrackRejoinsAcknowledgesEveryKnownFalse ==
    /\ RejoinHandlesUpdated
    /\ rejoinStopped =>
          \A r \in RejoinTaken :
              rejoinRequests[r].ack =
                  IF rejoinRequests[r].id \in RejoinKnownIds THEN "false" ELSE "true"

----------------------------------------------------------------------------
(* lockTLog on one handle whose interface changes                           *)

\* The server is seen at the interfaces 1 .. MaxLockInterfaces, one after
\* the other.
MaxLockInterfaces == 3

LockInterfaces == 1 .. MaxLockInterfaces

\* The ends a server answers a lock request with.
LockEnds == { 1, 2 }

LockRunning == [status |-> "running", interf |-> 0, end |-> 0]

\* A lock request whose broken promise is thrown to the caller of lockTLog.
LockTLogBrokenPromiseThrows(data) == [data EXCEPT !.status = "error"]

\* brokenPromiseToNever(...): a broken promise leaves lockTLog running, on a
\* future that is never ready.
LockTLogBrokenPromise(data) == data

\* The first part of the choose of lockTLog, as the loop is entered on the
\* handle: the interface a lock request is issued to, 0 for Never().
LockTLogRequest(handle) == IF handle.present THEN handle.interf ELSE 0

\* trackRejoins sets the handle to the next interface of the server; a
\* running lockTLog leaves its choose by onChange and enters the loop again.
LockTLogHandleChanges ==
    /\ lockHandle.interf < MaxLockInterfaces
    /\ lockHandle' = [present |-> TRUE, interf |-> lockHandle.interf + 1]
    /\ IF lockData.status = "running"
       THEN /\ lockWait' = LockTLogRequest(lockHandle')
            /\ lockSent' = lockSent \cup { LockTLogRequest(lockHandle') }
       ELSE UNCHANGED << lockWait, lockSent >>
    /\ UNCHANGED << lockAlive, lockAnswers, lockData >>
    /\ UNCHANGED notLockTLog

\* The server at the interface i takes a lock request and answers it.
LockTLogServerAnswers(i, end) ==
    /\ i \in lockSent
    /\ lockAlive[i]
    /\ lockAnswers[i] = 0
    /\ lockAnswers' = [lockAnswers EXCEPT ![i] = end]
    /\ UNCHANGED << lockHandle, lockAlive, lockSent, lockWait, lockData >>
    /\ UNCHANGED notLockTLog

\* The server at the interface i is gone.
LockTLogServerDies(i) ==
    /\ lockAlive[i]
    /\ lockAlive' = [lockAlive EXCEPT ![i] = FALSE]
    /\ UNCHANGED << lockHandle, lockSent, lockAnswers, lockWait, lockData >>
    /\ UNCHANGED notLockTLog

\* The reply lockTLog waits on arrives: return data.
LockTLogReplyArrives ==
    /\ lockData.status = "running"
    /\ lockWait # 0
    /\ lockAnswers[lockWait] # 0
    /\ lockData' = [status |-> "done", interf |-> lockWait, end |-> lockAnswers[lockWait]]
    /\ lockWait' = 0
    /\ UNCHANGED << lockHandle, lockAlive, lockSent, lockAnswers >>
    /\ UNCHANGED notLockTLog

\* The request lockTLog waits on ends with a broken promise, its server
\* being gone.
LockTLogPromiseBroken ==
    /\ lockData.status = "running"
    /\ lockWait # 0
    /\ ~ lockAlive[lockWait]
    /\ lockData' = LockTLogBrokenPromise(lockData)
    /\ lockWait' = 0
    /\ UNCHANGED << lockHandle, lockAlive, lockSent, lockAnswers >>
    /\ UNCHANGED notLockTLog

\* lockTLog is called on a handle that holds an id only or the first
\* interface, and stands in its choose.
LockTLogInit ==
    /\ Idle({ "lockTLog" })
    /\ lockHandle \in { [present |-> FALSE, interf |-> 0], [present |-> TRUE, interf |-> 1] }
    /\ lockAlive = [ i \in LockInterfaces |-> TRUE ]
    /\ lockSent = { LockTLogRequest(lockHandle) } \ { 0 }
    /\ lockAnswers = [ i \in LockInterfaces |-> 0 ]
    /\ lockWait = LockTLogRequest(lockHandle)
    /\ lockData = LockRunning

LockTLogNext ==
    \/ LockTLogHandleChanges
    \/ \E i \in LockInterfaces, end \in LockEnds : LockTLogServerAnswers(i, end)
    \/ \E i \in LockInterfaces : LockTLogServerDies(i)
    \/ LockTLogReplyArrives
    \/ LockTLogPromiseBroken

\* A live server answers the request it was sent, and a reply that is ready
\* reaches lockTLog.
LockTLogFairness ==
    /\ \A i \in LockInterfaces :
          WF_vars(\E end \in LockEnds : LockTLogServerAnswers(i, end))
    /\ WF_vars(LockTLogReplyArrives)

LockTLogSpec == LockTLogInit /\ [][LockTLogNext]_vars /\ LockTLogFairness

\* A step in which lockTLog ends: it returns the answer of the server at
\* the interface the handle holds.
LockTLogEndsWithReply ==
    /\ lockData.status = "running"
    /\ lockData'.status = "done"
    /\ lockHandle.present
    /\ lockData'.interf = lockHandle.interf
    /\ lockAnswers[lockHandle.interf] # 0
    /\ lockData'.end = lockAnswers[lockHandle.interf]

\* A step in which the handle of a running lockTLog changes: a lock request
\* goes to the new interface, and lockTLog waits on its reply.
LockTLogIssuedAgain ==
    /\ lockHandle'.present
    /\ lockHandle'.interf \in lockSent' \ lockSent
    /\ lockWait' = lockHandle'.interf

\* C29: lockTLog ends only by returning the lock reply of the server at the
\* interface its handle holds: no step on an absent handle or a broken
\* promise makes it end or fail.  Every change of the handle of a running
\* lockTLog issues the lock request again, to the new interface.  When
\* from some time on the handle holds an interface whose server is alive,
\* lockTLog eventually returns.
LockTLogCompletes ==
    /\ [][ /\ lockData' # lockData => LockTLogEndsWithReply
           /\ lockHandle' # lockHandle /\ lockData.status = "running" => LockTLogIssuedAgain
         ]_vars
    /\ <>[](lockHandle.present /\ lockAlive[lockHandle.interf])
          => <>(lockData.status = "done")

\* C29 witness: the server at the first interface was gone and the promise
\* of the request to it broken; the handle changed and lockTLog returned the
\* answer of the server at the second interface.
LockTLogCompletesWitness ==
    /\ lockData.status = "done"
    /\ lockData.interf = 2
    /\ lockData.end = lockAnswers[2]
    /\ 1 \in lockSent
    /\ ~ lockAlive[1]
    /\ lockAnswers[1] = 0

----------------------------------------------------------------------------
(* push and getPushLocations: the location of a log server                  *)

\* A LogSystem has at most MaxLocationSets sets of at most
\* MaxLocationServers log servers.
MaxLocationSets == 3

MaxLocationServers == 2

\* The loop of push from set i on, location being the counter: one commit
\* request per server of every local set that has servers, with
\* data.getMessages(location).
RECURSIVE PushRequests(_, _, _)
PushRequests(sets, i, location) ==
    IF i > Len(sets) THEN << >>
    ELSE IF sets[i].isLocal /\ sets[i].logServers > 0
    THEN [ loc \in 1 .. sets[i].logServers |->
             [set |-> i, loc |-> loc - 1, location |-> location + loc - 1] ]
         \o PushRequests(sets, i + 1, location + sets[i].logServers)
    ELSE PushRequests(sets, i + 1, location)

\* LogSet::getPushLocations(tags, locations, locationOffset): the indices the
\* set picks for the tags, each offset by locationOffset.
LogSetGetPushLocations(i, size, picked, locationOffset) ==
    LET idx == { j \in picked : j < size }
        order == CHOOSE f \in [ 1 .. Cardinality(idx) -> idx ] :
                    \A a \in DOMAIN f, b \in DOMAIN f : a < b => f[a] < f[b]
    IN  [ k \in 1 .. Cardinality(idx) |->
            [set |-> i, index |-> order[k], location |-> locationOffset + order[k]] ]

\* A getPushLocations whose offset counts the servers of every set.
RECURSIVE GetPushLocationsAllSets(_, _, _, _)
GetPushLocationsAllSets(sets, i, picked, locationOffset) ==
    IF i > Len(sets) THEN << >>
    ELSE IF sets[i].isLocal /\ sets[i].logServers > 0
    THEN LogSetGetPushLocations(i, sets[i].logServers, picked, locationOffset)
         \o GetPushLocationsAllSets(sets, i + 1, picked,
                                   locationOffset + sets[i].logServers)
    ELSE GetPushLocationsAllSets(sets, i + 1, picked, locationOffset + sets[i].logServers)

\* The loop of getPushLocations from set i on.
RECURSIVE GetPushLocationsFrom(_, _, _, _)
GetPushLocationsFrom(sets, i, picked, locationOffset) ==
    IF i > Len(sets) THEN << >>
    ELSE IF sets[i].isLocal /\ sets[i].logServers > 0
    THEN LogSetGetPushLocations(i, sets[i].logServers, picked, locationOffset)
         \o GetPushLocationsFrom(sets, i + 1, picked, locationOffset + sets[i].logServers)
    ELSE GetPushLocationsFrom(sets, i + 1, picked, locationOffset)

\* push(...): the commit requests it sends.
PushSends ==
    /\ "push" \notin locCalled
    /\ locPushed' = PushRequests(locSets, 1, 0)
    /\ locCalled' = locCalled \cup { "push" }
    /\ UNCHANGED << locSets, locLocations >>
    /\ UNCHANGED notLoc

\* getPushLocations(tags, locations) on tags for which every set picks its
\* servers of the indices in picked.
GetPushLocations(picked) ==
    /\ "getPushLocations" \notin locCalled
    /\ locLocations' = GetPushLocationsFrom(locSets, 1, picked, 0)
    /\ locCalled' = locCalled \cup { "getPushLocations" }
    /\ UNCHANGED << locSets, locPushed >>
    /\ UNCHANGED notLoc

LocInit ==
    /\ Idle({ "loc" })
    /\ locSets \in UNION { [ 1 .. n -> [isLocal : BOOLEAN,
                                       logServers : 0 .. MaxLocationServers] ] :
                             n \in 1 .. MaxLocationSets }
    /\ locPushed = << >>
    /\ locLocations = << >>
    /\ locCalled = {}

LocNext ==
    \/ PushSends
    \/ \E picked \in SUBSET (0 .. MaxLocationServers - 1) : GetPushLocations(picked)

LocSpec == LocInit /\ [][LocNext]_vars

\* The sets both loops enumerate, and the number of servers of those before
\* the set i.
LocPushSets == { i \in DOMAIN locSets : locSets[i].isLocal /\ locSets[i].logServers > 0 }

RECURSIVE LocServersIn(_)
LocServersIn(S) ==
    IF S = {} THEN 0
    ELSE LET i == CHOOSE x \in S : TRUE
         IN  locSets[i].logServers + LocServersIn(S \ { i })

LocServersBefore(i) == LocServersIn({ k \in LocPushSets : k < i })

\* C30: push sends the server at position loc of a set its messages under
\* the location getPushLocations gives that server: both take the local
\* sets that have servers, in the order of tLogs, and number the servers of
\* a set from the number of servers of the sets taken before it.  push
\* sends one request to every server of those sets and to no other.
PushLocationsAgree ==
    /\ "push" \in locCalled =>
          /\ \A p \in DOMAIN locPushed :
                /\ locPushed[p].set \in LocPushSets
                /\ locPushed[p].location = p - 1
                /\ locPushed[p].location =
                      LocServersBefore(locPushed[p].set) + locPushed[p].loc
          /\ Len(locPushed) = LocServersIn(LocPushSets)
    /\ "getPushLocations" \in locCalled =>
          \A g \in DOMAIN locLocations :
              /\ locLocations[g].set \in LocPushSets
              /\ locLocations[g].location =
                    LocServersBefore(locLocations[g].set) + locLocations[g].index
    /\ locCalled = { "push", "getPushLocations" } =>
          \A p \in DOMAIN locPushed, g \in DOMAIN locLocations :
              (locPushed[p].set = locLocations[g].set
                  /\ locPushed[p].loc = locLocations[g].index)
              <=> locPushed[p].location = locLocations[g].location

\* C30 witness: a set that is not local and has servers stands between two
\* local sets with servers; getPushLocations gave a server of the last set
\* the location 2, and push sent that server the messages of location 2.
PushLocationsAgreeWitness ==
    /\ locCalled = { "push", "getPushLocations" }
    /\ Len(locSets) = 3
    /\ locSets[1].isLocal /\ locSets[1].logServers = 2
    /\ ~ locSets[2].isLocal /\ locSets[2].logServers > 0
    /\ locSets[3].isLocal /\ locSets[3].logServers > 0
    /\ \E p \in DOMAIN locPushed, g \in DOMAIN locLocations :
          /\ locPushed[p].set = 3 /\ locPushed[p].loc = 0
          /\ locLocations[g].set = 3 /\ locLocations[g].index = 0
          /\ locPushed[p].location = 2
          /\ locLocations[g].location = 2

====
